---- MODULE Spec2Model ----
(***************************************************************************)
(* A model of the lightbus client core: the transport registry             *)
(* (transports/base.py), the event dock (client/docks/event.py) and the    *)
(* RPC/result subclient (client/subclients/rpc_result.py).                 *)
(*                                                                         *)
(* Each component has its own specification over the shared variables:     *)
(*   SpecRegistry  the registry's setters and lookups                      *)
(*   SpecPools     the registry's grouped lookups over every small         *)
(*                 registry and list of API names                          *)
(*   SpecDefaults  the getters called with and without a default value     *)
(*   SpecTransports  get_transport and get_transport_name over every small *)
(*                 installation of entry points                            *)
(*   SpecConsume   the event dock's ConsumeEventsCommand handler over every *)
(*                 small registry and request                              *)
(*   SpecDock      the event dock with its listener tasks running          *)
(*   SpecRpc       call_rpc_remote, the command pipeline and bail_on_error *)
(*                 with two concurrent callers                             *)
(*   SpecCall      one call_rpc_remote with all its result processing      *)
(*   SpecCancel    one call_rpc_remote whose caller may be cancelled       *)
(*   SpecSilent    two callers of a remote side that never answers, under  *)
(*                 the event loop's fairness                               *)
(*   SpecExecute   handle_execute_rpc serving local procedures             *)
(*   SpecConsumeRpcs  consume_rpcs over every small API registry           *)
(*   SpecDispatch  the `handle` dispatch of the event dock and the         *)
(*                 RPC/result subclient, known and unknown commands        *)
(***************************************************************************)
EXTENDS Integers, Sequences, FiniteSets, TLC

VARIABLES
    registry,        \* TransportRegistry._registry: api name -> _RegistryEntry
    lookup,          \* the last registry lookup made and what it gave
    schema_transport_pool, \* TransportRegistry.schema_transport_pool
    entrypoints,     \* the installed transport entry points, in load order
    transport_lookup, \* the last get_transport / get_transport_name calls
    listener_tasks,  \* EventDock.listener_tasks: the composite (gather) tasks
    composite,       \* each composite task: its command, state, done-callback
    listener,        \* each per-transport listener task
    destination_queue, \* command.destination_queue (bounded)
    error_queue,     \* the shared error queue
    errors_put,      \* history: every exception ever put on error_queue
    handled,         \* the outcome of each command the event dock has handled
    closing,         \* the CloseCommand handler's position and outcome
    pool_closed,     \* how many times close() was invoked on each pool
    pc,              \* each call_rpc_remote caller's position
    queue_of,        \* the result_queue each caller created
    pipeline,        \* the producer/consumer FIFO of commands
    accepted,        \* commands the consumer has accepted, handler not yet run
    dispatched,      \* rpc message ids the RPC transport has published
    armed,           \* rpc message id -> the queue its result receiver feeds
    wire,            \* results on each call's return path, not yet received
    produced,        \* history: how many results the remote produced per id
    answered,        \* the error flag of the remote side's answer to each call
    result_queue,    \* the items waiting in each result queue
    placed,          \* history: every item ever placed on each result queue
    fn_task,         \* bail_on_error's task around result_queue.get()
    monitor_task,    \* bail_on_error's task around error_queue.get()
    put_while_blocked, \* history: error records put while the caller was blocked
    invoked,         \* the hooks and validators each call ran on its result
    prepared,        \* the validators and hook each call ran before sending
    sent,            \* the commands each call sent to the pipeline, in order
    outcome,         \* what call_rpc_remote returned or raised
    executions,      \* each ExecuteRpcCommand handled: what ran, what was sent
    api_registry,    \* the APIs registered with the client, in order
    consuming,       \* the consume_rpcs call: its argument, what it sent, outcome
    fallback         \* the last command no handler was registered for

pluginVars == <<entrypoints, transport_lookup>>
regVars == <<registry, lookup, schema_transport_pool, pluginVars>>
dockVars == <<listener_tasks, composite, listener, destination_queue, handled,
              closing, pool_closed>>
errVars == <<error_queue, errors_put>>
rpcVars == <<pc, queue_of, pipeline, accepted, dispatched, armed, wire, produced,
             answered,
             result_queue, placed, fn_task, monitor_task, put_while_blocked,
             invoked, prepared, sent, outcome>>
serveVars == <<executions, api_registry, consuming, fallback>>
vars == <<regVars, dockVars, errVars, rpcVars, serveVars>>

----------------------------------------------------------------------------
(* Values shared by the components *)

None == "None"

\* What a call gives: a returned value or a raised exception.
Return(v) == [kind |-> "return", value |-> v]
Raise(e) == [kind |-> "raise", value |-> e]

----------------------------------------------------------------------------
(* The transport registry, transports/base.py *)

\* default=empty, the "no default given" marker of _get_transport_pool
empty == "empty"

ApiNames == {"default", "a", "b", "c"}
TransportTypes == {"rpc", "result", "event"}
Pools == {"p1", "p2"}
\* an explicit default a caller may pass to get_*_transport_pool
DefaultValues == {empty, "d"}

\* how many set_*_transport calls a run makes
MaxSets == 3

_RegistryEntry == [rpc |-> None, result |-> None, event |-> None]

EmptyRegistry == [n \in {} |-> _RegistryEntry]

_set_transport_pool(reg, api_name, transport, transport_type) ==
    LET reg1 == IF api_name \in DOMAIN reg THEN reg
                ELSE reg @@ (api_name :> _RegistryEntry)
    IN [reg1 EXCEPT ![api_name][transport_type] = transport]

\* A plausible slip: the fallback reads the default entry's rpc pool whatever
\* kind was asked for.
RECURSIVE _get_transport_pool_any_kind(_, _, _, _)
_get_transport_pool_any_kind(reg, api_name, transport_type, default) ==
    LET own == IF api_name \in DOMAIN reg THEN reg[api_name][transport_type]
               ELSE None
        api_transport ==
            IF own = None /\ api_name # "default"
            THEN LET r == _get_transport_pool_any_kind(reg, "default", "rpc", empty)
                 IN IF r.kind = "raise" THEN own ELSE r.value
            ELSE own
    IN IF api_transport = None /\ default = empty
       THEN Raise("TransportNotFound")
       ELSE Return(api_transport)

\* registry_entry is a 3-tuple, so `if registry_entry:` is true of every entry
\* there is; a pool object is truthy, None is not.
RECURSIVE _get_transport_pool(_, _, _, _)
_get_transport_pool(reg, api_name, transport_type, default) ==
    LET own == IF api_name \in DOMAIN reg THEN reg[api_name][transport_type]
               ELSE None
        api_transport ==
            IF own = None /\ api_name # "default"
            THEN LET r == _get_transport_pool(reg, "default", transport_type, empty)
                 IN IF r.kind = "raise" THEN own ELSE r.value
            ELSE own
    IN IF api_transport = None /\ default = empty
       THEN Raise("TransportNotFound")
       ELSE Return(api_transport)

\* A plausible slip: the name is put at the front of its group's list.
AppendApiPrepend(items, transport, api_name) ==
    IF \E i \in 1..Len(items) : items[i].pool = transport
    THEN [i \in 1..Len(items) |->
             IF items[i].pool = transport
             THEN [items[i] EXCEPT !.api_names = <<api_name>> \o @]
             ELSE items[i]]
    ELSE Append(items, [pool |-> transport, api_names |-> <<api_name>>])

\* A plausible slip: the groups are keyed by API, not by pool.
AppendApiPerApi(items, transport, api_name) ==
    IF \E i \in 1..Len(items) : items[i].api_names[1] = api_name
    THEN [i \in 1..Len(items) |->
             IF items[i].api_names[1] = api_name
             THEN [items[i] EXCEPT !.api_names = Append(@, api_name)]
             ELSE items[i]]
    ELSE Append(items, [pool |-> transport, api_names |-> <<api_name>>])

\* apis_by_transport.setdefault(transport, []); ...append(api_name): a dict,
\* kept here as the list of its items in insertion order.
AppendApi(items, transport, api_name) ==
    IF \E i \in 1..Len(items) : items[i].pool = transport
    THEN [i \in 1..Len(items) |->
             IF items[i].pool = transport
             THEN [items[i] EXCEPT !.api_names = Append(@, api_name)]
             ELSE items[i]]
    ELSE Append(items, [pool |-> transport, api_names |-> <<api_name>>])

\* A plausible slip: an API that resolves to no pool is left out and the rest
\* is served.
RECURSIVE GroupByTransportSkipMissing(_, _, _, _)
GroupByTransportSkipMissing(reg, api_names, transport_type, items) ==
    IF api_names = <<>> THEN Return(items)
    ELSE LET r == _get_transport_pool(reg, Head(api_names), transport_type, empty)
         IN GroupByTransportSkipMissing(
                reg, Tail(api_names), transport_type,
                IF r.kind = "raise" THEN items
                ELSE AppendApi(items, r.value, Head(api_names)))

RECURSIVE GroupByTransport(_, _, _, _)
GroupByTransport(reg, api_names, transport_type, items) ==
    IF api_names = <<>> THEN Return(items)
    ELSE LET r == _get_transport_pool(reg, Head(api_names), transport_type, empty)
         IN IF r.kind = "raise" THEN r
            ELSE GroupByTransport(reg, Tail(api_names), transport_type,
                                  AppendApi(items, r.value, Head(api_names)))

_get_transport_pools(reg, api_names, transport_type) ==
    GroupByTransport(reg, api_names, transport_type, <<>>)

get_event_transport_pools(reg, api_names) ==
    _get_transport_pools(reg, api_names, "event")

NoLookup == [op |-> "none", api_name |-> None, api_names |-> <<>>,
             transport_type |-> None, default |-> empty,
             result |-> Return(None)]

SetCount(reg) ==
    Cardinality({<<n, t>> \in (DOMAIN reg) \X TransportTypes : reg[n][t] # None})

\* set_rpc_transport / set_result_transport / set_event_transport
SetTransport(api_name, transport, transport_type) ==
    /\ SetCount(registry) < MaxSets
    /\ registry' = _set_transport_pool(registry, api_name, transport, transport_type)
    /\ lookup' = NoLookup
    /\ UNCHANGED <<schema_transport_pool, pluginVars>>
    /\ UNCHANGED <<dockVars, errVars, rpcVars, serveVars>>

\* get_rpc_transport_pool / get_result_transport_pool / get_event_transport_pool
GetTransportPool(api_name, transport_type, default) ==
    /\ lookup' = [op |-> "get_pool", api_name |-> api_name, api_names |-> <<>>,
                  transport_type |-> transport_type, default |-> default,
                  result |-> _get_transport_pool(registry, api_name,
                                                 transport_type, default)]
    /\ UNCHANGED <<registry, schema_transport_pool, pluginVars>>
    /\ UNCHANGED <<dockVars, errVars, rpcVars, serveVars>>

NextRegistry ==
    \/ \E n \in ApiNames, p \in Pools, t \in TransportTypes : SetTransport(n, p, t)
    \/ \E n \in ApiNames, t \in TransportTypes, d \in DefaultValues :
           GetTransportPool(n, t, d)

\* how many API names a grouped lookup is given
MaxNames == 3

\* the kinds that have a grouped lookup
PoolsTypes == {"rpc", "event"}

\* the lists of API names a caller may pass, repeats included
ApiNameLists == UNION {[1..k -> ApiNames] : k \in 0..MaxNames}

\* get_rpc_transport_pools / get_event_transport_pools; a run makes one such
\* lookup
GetTransportPools(api_names, transport_type) ==
    /\ lookup.op = "none"
    /\ lookup' = [op |-> "get_pools", api_name |-> None, api_names |-> api_names,
                  transport_type |-> transport_type, default |-> empty,
                  result |-> _get_transport_pools(registry, api_names,
                                                  transport_type)]
    /\ UNCHANGED <<registry, schema_transport_pool, pluginVars>>
    /\ UNCHANGED <<dockVars, errVars, rpcVars, serveVars>>

NextPools ==
    \E names \in ApiNameLists, t \in PoolsTypes : GetTransportPools(names, t)

\* set_schema_transport
SetSchemaTransport(transport) ==
    /\ schema_transport_pool' = transport
    /\ lookup' = NoLookup
    /\ UNCHANGED <<registry, pluginVars>>
    /\ UNCHANGED <<dockVars, errVars, rpcVars, serveVars>>

\* get_schema_transport_pool: `pool or default` when either is there
get_schema_transport_pool(pool, default) ==
    IF pool # None \/ default # empty
    THEN Return(IF pool # None THEN pool ELSE default)
    ELSE Raise("TransportNotFound")

GetSchemaTransportPool(default) ==
    /\ lookup' = [op |-> "get_schema", api_name |-> None, api_names |-> <<>>,
                  transport_type |-> "schema", default |-> default,
                  result |-> get_schema_transport_pool(schema_transport_pool,
                                                       default)]
    /\ UNCHANGED <<registry, schema_transport_pool, pluginVars>>
    /\ UNCHANGED <<dockVars, errVars, rpcVars, serveVars>>

\* The getters with and without an explicit default, schema getter included.
NextDefaults ==
    \/ \E n \in ApiNames, p \in Pools, t \in TransportTypes : SetTransport(n, p, t)
    \/ \E p \in Pools : SetSchemaTransport(p)
    \/ \E n \in ApiNames, t \in TransportTypes, d \in DefaultValues :
           GetTransportPool(n, t, d)
    \/ \E d \in DefaultValues : GetSchemaTransportPool(d)

----------------------------------------------------------------------------
(* Transport plug-in registration, transports/base.py lines 389-424 *)

\* the families in the order get_transport_name walks them
TransportFamilies == <<"rpc", "result", "event">>
TransportNames == {"redis", "debug"}
TransportClasses == {"RedisTransport", "DebugTransport"}

\* how many entry points are installed
MaxEntryPoints == 3

\* one entry point of the group lightbus_{type_}_transports
EntryPoint(type_, name, class_) == [type_ |-> type_, name |-> name, class_ |-> class_]
EntryPoints == {EntryPoint(t, n, c) : t \in TransportTypes, n \in TransportNames,
                                      c \in TransportClasses}
\* every installation: the same class may sit under several names and in
\* several families, and a name may be given twice
EntryPointLists == UNION {[1..k -> EntryPoints] : k \in 0..MaxEntryPoints}

\* load_entrypoint_classes(f"lightbus_{type_}_transports"): the group's
\* (module_name, name, class_) entries in load order
load_entrypoint_classes(eps, type_) == SelectSeq(eps, LAMBDA e : e.type_ = type_)

\* {name: class_ for ... in loaded}: a dict, kept as the list of its items in
\* insertion order; a later entry of the same name replaces the class
RECURSIVE DictOfLoaded(_, _)
DictOfLoaded(loaded, items) ==
    IF loaded = <<>> THEN items
    ELSE LET e == Head(loaded)
             item == [name |-> e.name, class_ |-> e.class_]
         IN DictOfLoaded(Tail(loaded),
                IF \E i \in 1..Len(items) : items[i].name = e.name
                THEN [i \in 1..Len(items) |->
                         IF items[i].name = e.name THEN item ELSE items[i]]
                ELSE Append(items, item))

\* A plausible slip: an empty family is an empty dict, not an error.
get_available_transports_unchecked(eps, type_) ==
    Return(DictOfLoaded(load_entrypoint_classes(eps, type_), <<>>))

get_available_transports(eps, type_) ==
    LET loaded == load_entrypoint_classes(eps, type_)
    IN IF loaded = <<>> THEN Raise("TransportsNotInstalled")
       ELSE Return(DictOfLoaded(loaded, <<>>))

RECURSIVE FirstNamed(_, _)
FirstNamed(items, name) ==
    IF items = <<>> THEN Raise("TransportNotFound")
    ELSE IF name = Head(items).name THEN Return(Head(items).class_)
    ELSE FirstNamed(Tail(items), name)

get_transport(eps, type_, name) ==
    LET available == get_available_transports(eps, type_)
    IN IF available.kind = "raise" THEN available
       ELSE FirstNamed(available.value, name)

RECURSIVE FirstOfClass(_, _)
FirstOfClass(loaded, cls) ==
    IF loaded = <<>> THEN Raise("TransportNotFound")
    ELSE IF cls = Head(loaded).class_ THEN Return(Head(loaded).name)
    ELSE FirstOfClass(Tail(loaded), cls)

RECURSIVE NameInFamilies(_, _, _)
NameInFamilies(eps, families, cls) ==
    IF families = <<>> THEN Raise("TransportNotFound")
    ELSE LET r == FirstOfClass(load_entrypoint_classes(eps, Head(families)), cls)
         IN IF r.kind = "return" THEN r
            ELSE NameInFamilies(eps, Tail(families), cls)

get_transport_name(eps, cls) == NameInFamilies(eps, TransportFamilies, cls)

NoTransportLookup == [op |-> "none", type_ |-> None, name |-> None,
                      result |-> Return(None), cls |-> None,
                      named |-> Return(None)]

\* get_transport(type_, name); a run looks one transport up
GetTransport(type_, name) ==
    /\ transport_lookup.op = "none"
    /\ transport_lookup' = [NoTransportLookup EXCEPT
                               !.op = "get_transport", !.type_ = type_,
                               !.name = name,
                               !.result = get_transport(entrypoints, type_, name)]
    /\ UNCHANGED <<registry, lookup, schema_transport_pool, entrypoints>>
    /\ UNCHANGED <<dockVars, errVars, rpcVars, serveVars>>

\* get_transport_name(cls), of any class or of the class just looked up
GetTransportName(cls) ==
    /\ transport_lookup.op \in {"none", "get_transport"}
    /\ transport_lookup' = [transport_lookup EXCEPT
                               !.op = "get_transport_name", !.cls = cls,
                               !.named = get_transport_name(entrypoints, cls)]
    /\ UNCHANGED <<registry, lookup, schema_transport_pool, entrypoints>>
    /\ UNCHANGED <<dockVars, errVars, rpcVars, serveVars>>

NextTransports ==
    \/ \E t \in TransportTypes, n \in TransportNames : GetTransport(t, n)
    \/ \E c \in TransportClasses : GetTransportName(c)

----------------------------------------------------------------------------
(* The event dock, client/docks/event.py *)

\* The ConsumeEventsCommands a run handles, by the number of their composite task
CommandIds == {1}
\* longest command.events list
MaxRequest == 3
\* batches one consume stream yields
MaxBatches == 2
\* how many events a batch may hold
BatchSizes == {0, 1, 2}
\* maxsize of command.destination_queue
QueueMax == 1

ListenerIds == CommandIds \X (1..Cardinality(Pools))

EventPairs == {<<"a", "x">>, <<"b", "y">>, <<"c", "z">>}
SeqsUpTo(S, n) == UNION {[1..k -> S] : k \in 0..n}
AllRequests == SeqsUpTo(EventPairs, MaxRequest)

\* Scenario 4 of the spec: a and b share one event pool, c has its own; no
\* default entry, so an API the registry does not know resolves to nothing.
DockRegistry ==
    _set_transport_pool(
        _set_transport_pool(
            _set_transport_pool(EmptyRegistry, "a", "p1", "event"),
            "b", "p1", "event"),
        "c", "p2", "event")
DockRequests == {<<<<"a", "x">>, <<"b", "y">>, <<"c", "z">>>>, <<<<"c", "z">>>>,
                 <<<<"a", "x">>, <<"unknown", "w">>>>}

RECURSIVE Flatten(_)
Flatten(batches) ==
    IF batches = <<>> THEN <<>> ELSE Head(batches) \o Flatten(Tail(batches))

NoListener == [state |-> "none", pool |-> None, listen_for |-> <<>>,
               yielded |-> <<>>, event_messages |-> <<>>, forwarded |-> <<>>,
               exc |-> None]
NoComposite == [state |-> "none", events |-> <<>>, children |-> 0, exc |-> None,
                callback |-> "none"]

ChildrenOf(g) == {l \in ListenerIds : l[1] = g /\ l[2] <= composite[g].children}

\* the exception a failing listener raises
ExcOf(l) == <<"Error", l[1], l[2]>>

\* events = [(api_name, event_name) for ... in command.events if api_name in api_names]
InList(x, xs) == \E i \in 1..Len(xs) : xs[i] = x
ListenFor(events, api_names) ==
    SelectSeq(events, LAMBDA e : InList(e[1], api_names))

ApiNamesOf(events) == [i \in 1..Len(events) |-> events[i][1]]

NewCommandId == Cardinality({g \in CommandIds : composite[g].state # "none"}) + 1

\* handle_consume_events(ConsumeEventsCommand): the whole handler
HandleConsumeEvents(events) ==
    /\ closing.state = "idle"
    /\ Len(handled) < Cardinality(CommandIds)
    /\ LET r == get_event_transport_pools(registry, ApiNamesOf(events))
           g == NewCommandId
       IN IF r.kind = "raise"
          THEN /\ handled' = Append(handled, [events |-> events, result |-> r, task |-> 0])
               /\ UNCHANGED <<listener_tasks, composite, listener, destination_queue>>
          ELSE /\ listener' =
                     [l \in ListenerIds |->
                         IF l[1] = g /\ l[2] <= Len(r.value)
                         THEN [NoListener EXCEPT
                                  !.state = "running",
                                  !.pool = r.value[l[2]].pool,
                                  !.listen_for =
                                      ListenFor(events, r.value[l[2]].api_names)]
                         ELSE listener[l]]
               \* gather() of no tasks is a future that is already done
               /\ composite' =
                     [composite EXCEPT ![g] =
                         [state |-> IF Len(r.value) = 0 THEN "finished" ELSE "pending",
                          events |-> events, children |-> Len(r.value),
                          exc |-> None,
                          callback |-> IF Len(r.value) = 0 THEN "scheduled" ELSE "none"]]
               /\ listener_tasks' = listener_tasks \cup {g}
               /\ destination_queue' = [destination_queue EXCEPT ![g] = <<>>]
               /\ handled' = Append(handled, [events |-> events,
                                              result |-> Return(None), task |-> g])
    /\ UNCHANGED <<closing, pool_closed, errVars>>
    /\ UNCHANGED <<regVars, rpcVars, serveVars>>

\* A plausible slip: a prefetching listener asks for the next batch at once.
CanPullPrefetch(l) == TRUE


\* `async for event_messages in consumer` asks the stream for its next batch
\* only when the loop body, the puts of the batch before, has run to its end.
CanPull(l) == listener[l].event_messages = <<>>

\* A plausible slip: the batch is taken back to front.
NextEventMessageReversed(event_messages) == event_messages[Len(event_messages)]


\* `for event_message in event_messages` takes the batch front to back.
NextEventMessage(event_messages) == Head(event_messages)

RestOf(event_messages, e) ==
    SelectSeq(event_messages, LAMBDA x : x # e)

\* the consume stream yields a batch: the next k events of the transport
ListenerPull(l, k) ==
    /\ listener[l].state = "running"
    /\ CanPull(l)
    /\ Len(listener[l].yielded) < MaxBatches
    /\ LET n == Len(Flatten(listener[l].yielded))
           batch == [i \in 1..k |-> n + i]
       IN listener' = [listener EXCEPT ![l].yielded = Append(@, batch),
                                       ![l].event_messages = batch]
    /\ UNCHANGED <<listener_tasks, composite, destination_queue, handled, closing,
                   pool_closed, errVars>>
    /\ UNCHANGED <<regVars, rpcVars, serveVars>>

\* await command.destination_queue.put(event_message); blocks while full
ListenerPut(l) ==
    /\ listener[l].state = "running"
    /\ listener[l].event_messages # <<>>
    /\ Len(destination_queue[l[1]]) < QueueMax
    /\ LET e == NextEventMessage(listener[l].event_messages)
       IN /\ destination_queue' =
                [destination_queue EXCEPT ![l[1]] = Append(@, <<l, e>>)]
          /\ listener' =
                [listener EXCEPT ![l].forwarded = Append(@, e),
                                 ![l].event_messages = RestOf(@, e)]
    /\ UNCHANGED <<listener_tasks, composite, handled, closing, pool_closed, errVars>>
    /\ UNCHANGED <<regVars, rpcVars, serveVars>>

\* the application takes an event off the destination queue
DestinationGet(g) ==
    /\ destination_queue[g] # <<>>
    /\ destination_queue' = [destination_queue EXCEPT ![g] = Tail(@)]
    /\ UNCHANGED <<listener_tasks, composite, listener, handled, closing,
                   pool_closed, errVars>>
    /\ UNCHANGED <<regVars, rpcVars, serveVars>>

\* asyncio.gather(*tasks) without return_exceptions: the first child's
\* exception completes the outer future; a later child's is dropped.
GatherChildDone(comp, child_state, exc) ==
    IF comp.state # "pending" THEN comp
    ELSE IF child_state = "failed"
         THEN [comp EXCEPT !.state = "failed", !.exc = exc, !.callback = "scheduled"]
         ELSE comp

\* the transport (acquire, consume, or the stream) raises inside the listener
ListenerFail(l) ==
    /\ listener[l].state = "running"
    /\ listener' = [listener EXCEPT ![l].state = "failed", ![l].exc = ExcOf(l)]
    /\ composite' = [composite EXCEPT ![l[1]] = GatherChildDone(@, "failed", ExcOf(l))]
    /\ UNCHANGED <<listener_tasks, destination_queue, handled, closing, pool_closed,
                   errVars>>
    /\ UNCHANGED <<regVars, rpcVars, serveVars>>

\* the consume stream ends: the listener returns normally
ListenerReturn(l) ==
    /\ listener[l].state = "running"
    /\ listener[l].event_messages = <<>>
    /\ listener' = [listener EXCEPT ![l].state = "finished"]
    /\ composite' =
          [composite EXCEPT ![l[1]] =
              IF /\ @.state = "pending"
                 /\ \A m \in ChildrenOf(l[1]) \ {l} : listener[m].state = "finished"
              THEN [@ EXCEPT !.state = "finished", !.callback = "scheduled"]
              ELSE @]
    /\ UNCHANGED <<listener_tasks, destination_queue, handled, closing, pool_closed,
                   errVars>>
    /\ UNCHANGED <<regVars, rpcVars, serveVars>>

\* queue_exception_checker's callback, run when the composite task is done:
\* an exception goes on the error queue, a cancellation or a result does not.
ExceptionChecker(g) ==
    /\ composite[g].callback = "scheduled"
    /\ composite' = [composite EXCEPT ![g].callback = "ran"]
    /\ IF composite[g].state = "failed"
       THEN /\ error_queue' = Append(error_queue, composite[g].exc)
            /\ errors_put' = errors_put \cup {composite[g].exc}
       ELSE UNCHANGED errVars
    /\ UNCHANGED <<listener_tasks, listener, destination_queue, handled, closing,
                   pool_closed>>
    /\ UNCHANGED <<regVars, rpcVars, serveVars>>

\* cancel(*tasks): task.cancel() on each task, then await it.  cancel() on a
\* gather future that is already done returns False and cancels no child.
CancelComposite(comp) ==
    IF comp.state = "pending"
    THEN [comp EXCEPT !.state = "cancelled", !.callback = "scheduled"]
    ELSE comp

CancelListener(lst, comp) ==
    IF comp.state = "pending" /\ lst.state = "running"
    THEN [lst EXCEPT !.state = "cancelled"]
    ELSE lst

\* handle_consume_events(CloseCommand), line 67: await cancel(*self.listener_tasks)
CloseCancel ==
    /\ closing.state = "idle"
    /\ closing' = [closing EXCEPT !.state = "cancelled_tasks"]
    /\ composite' = [g \in CommandIds |->
                        IF g \in listener_tasks THEN CancelComposite(composite[g])
                        ELSE composite[g]]
    /\ listener' = [l \in ListenerIds |->
                       IF l[1] \in listener_tasks
                       THEN CancelListener(listener[l], composite[l[1]])
                       ELSE listener[l]]
    /\ UNCHANGED <<listener_tasks, destination_queue, handled, pool_closed, errVars>>
    /\ UNCHANGED <<regVars, rpcVars, serveVars>>

\* Line 69 calls get_event_transport_pools() with no argument; the method
\* (base.py line 376) has the required parameter api_names.
get_event_transport_pools_without_api_names == Raise("TypeError")

\* handle_consume_events(CloseCommand), lines 69-70
CloseTransports ==
    /\ closing.state = "cancelled_tasks"
    /\ LET r == get_event_transport_pools_without_api_names
       IN IF r.kind = "raise"
          THEN /\ closing' = [state |-> "raised", exc |-> r.value]
               /\ UNCHANGED pool_closed
          ELSE /\ closing' = [state |-> "done", exc |-> None]
               /\ pool_closed' =
                     [p \in Pools |->
                         IF \E i \in 1..Len(r.value) : r.value[i].pool = p
                         THEN pool_closed[p] + 1 ELSE pool_closed[p]]
    /\ UNCHANGED <<listener_tasks, composite, listener, destination_queue, handled,
                   errVars>>
    /\ UNCHANGED <<regVars, rpcVars, serveVars>>

NextConsume == \E events \in AllRequests : HandleConsumeEvents(events)

NextDock ==
    \/ \E events \in DockRequests : HandleConsumeEvents(events)
    \/ \E l \in ListenerIds, k \in BatchSizes : ListenerPull(l, k)
    \/ \E l \in ListenerIds : ListenerPut(l)
    \/ \E g \in CommandIds : DestinationGet(g)
    \/ \E l \in ListenerIds : ListenerFail(l)
    \/ \E l \in ListenerIds : ListenerReturn(l)
    \/ \E g \in CommandIds : ExceptionChecker(g)
    \/ CloseCancel
    \/ CloseTransports

----------------------------------------------------------------------------
(* The RPC/result subclient, client/subclients/rpc_result.py *)

\* Concurrent call_rpc_remote callers; each call's RpcMessage.id is the
\* caller's number (a fresh id per call).
Callers == {1, 2}
\* result messages the remote side produces for one call (duplicates)
MaxResults == 2
\* error records background tasks put on the error queue
MaxErrors == 1

\* the options argument of each caller's call
CallOptions == <<"options1", "options2">>
OptionsOf(c) == CallOptions[c]

CallRpcCommand(c, q) == [type |-> "CallRpcCommand", message |-> c,
                         destination_queue |-> q, options |-> OptionsOf(c)]
\* A plausible slip: the options are left out of the second command.
ReceiveResultCommandNoOptions(c, q) ==
    [type |-> "ReceiveResultCommand", message |-> c,
     destination_queue |-> q, options |-> "frozendict()"]
ReceiveResultCommand(c, q) == [type |-> "ReceiveResultCommand", message |-> c,
                               destination_queue |-> q, options |-> OptionsOf(c)]

\* the value the n-th answer to a call carries
ResultValues == <<"result1", "result2", "result3">>
ResultValue(n) == ResultValues[n]

ResultMessage(id, n, err) == [type |-> "ResultMessage", rpc_message_id |-> id,
                              result |-> ResultValue(n), error |-> err]
TimeoutError(id) == [type |-> "TimeoutError", rpc_message_id |-> id,
                     result |-> None, error |-> FALSE]
\* an exception other than a timeout that the receiver hands over
TransportError(id) == [type |-> "TransportError", rpc_message_id |-> id,
                       result |-> None, error |-> FALSE]

Pending == [state |-> "pending", value |-> None]
NotStarted == [state |-> "none", value |-> None]
Done(v) == [state |-> "done", value |-> v]
Cancelled == [state |-> "cancelled", value |-> None]

\* A plausible slip: one queue kept on the client and shared by every call.
NewResultQueueShared(c) == 1


\* result_queue = asyncio.Queue(): a queue of this call alone
NewResultQueue(c) == c

InPipeline(cmd) == \E i \in 1..Len(pipeline) : pipeline[i] = cmd

ValidationResults == {"ok", "InvalidName", "ValidationError", "HookError"}

\* one step call_rpc_remote runs before it sends, and what the step gave
Step(name, result) == [step |-> name, result |-> result]

\* A plausible slip: the before_rpc_call hook runs ahead of validate_outgoing.
BeforeSendHookFirst(v) ==
    IF v = "InvalidName"
    THEN <<Step("validate_event_or_rpc_name", v)>>
    ELSE IF v = "HookError"
    THEN <<Step("validate_event_or_rpc_name", "ok"), Step("before_rpc_call", v)>>
    ELSE <<Step("validate_event_or_rpc_name", "ok"), Step("before_rpc_call", "ok"),
           Step("validate_outgoing", v)>>

\* lines 87-97: validate_event_or_rpc_name, validate_outgoing, then the
\* before_rpc_call hook; the first that fails ends the call.  v tells which
\* fails, if any.
BeforeSend(v) ==
    IF v = "InvalidName"
    THEN <<Step("validate_event_or_rpc_name", v)>>
    ELSE IF v = "ValidationError"
    THEN <<Step("validate_event_or_rpc_name", "ok"), Step("validate_outgoing", v)>>
    ELSE <<Step("validate_event_or_rpc_name", "ok"), Step("validate_outgoing", "ok"),
           Step("before_rpc_call", v)>>

\* call_rpc_remote lines 85-104: build and validate the message, run the
\* before_rpc_call hook, create the result queue, send the CallRpcCommand
CallStart(c, v) ==
    /\ pc[c] = "start"
    /\ IF v # "ok"
       THEN /\ pc' = [pc EXCEPT ![c] = "done"]
            /\ outcome' = [outcome EXCEPT ![c] = Raise(v)]
            /\ UNCHANGED <<queue_of, pipeline, sent>>
       ELSE /\ pc' = [pc EXCEPT ![c] = "sent_call"]
            /\ queue_of' = [queue_of EXCEPT ![c] = NewResultQueue(c)]
            /\ pipeline' = Append(pipeline, CallRpcCommand(c, 0))
            /\ sent' = [sent EXCEPT ![c] = Append(@, CallRpcCommand(c, 0))]
            /\ UNCHANGED outcome
    /\ prepared' = [prepared EXCEPT ![c] = BeforeSend(v)]
    /\ UNCHANGED <<accepted, dispatched, armed, wire, produced, answered, result_queue, placed,
                   fn_task, monitor_task, put_while_blocked, errVars>>
    /\ UNCHANGED <<regVars, dockVars, invoked, serveVars>>

\* lines 104-111: the CallRpcCommand was accepted; send the ReceiveResultCommand
CallSendReceive(c) ==
    /\ pc[c] = "sent_call"
    /\ ~InPipeline(CallRpcCommand(c, 0))
    /\ pc' = [pc EXCEPT ![c] = "sent_receive"]
    /\ pipeline' = Append(pipeline, ReceiveResultCommand(c, queue_of[c]))
    /\ sent' = [sent EXCEPT ![c] = Append(@, ReceiveResultCommand(c, queue_of[c]))]
    /\ UNCHANGED <<queue_of, accepted, dispatched, armed, wire, produced, answered,
                   result_queue, placed, fn_task, monitor_task, put_while_blocked,
                   outcome, errVars>>
    /\ UNCHANGED <<regVars, dockVars, invoked, prepared, serveVars>>

\* lines 111-115 and 36-39: the ReceiveResultCommand was accepted; bail_on_error
\* starts fn_task and monitor_task and waits for the first to complete
CallWait(c) ==
    /\ pc[c] = "sent_receive"
    /\ ~InPipeline(ReceiveResultCommand(c, queue_of[c]))
    /\ pc' = [pc EXCEPT ![c] = "waiting"]
    /\ fn_task' = [fn_task EXCEPT ![c] = Pending]
    /\ monitor_task' = [monitor_task EXCEPT ![c] = Pending]
    /\ UNCHANGED <<queue_of, pipeline, accepted, dispatched, armed, wire, produced, answered,
                   result_queue, placed, put_while_blocked, outcome, errVars>>
    /\ UNCHANGED <<regVars, dockVars, invoked, prepared, sent, serveVars>>

\* fn_task: result_queue.get() takes the first item of the queue
FnTaskDone(c) ==
    /\ fn_task[c].state = "pending"
    /\ result_queue[queue_of[c]] # <<>>
    /\ fn_task' = [fn_task EXCEPT ![c] = Done(Head(result_queue[queue_of[c]]))]
    /\ result_queue' = [result_queue EXCEPT ![queue_of[c]] = Tail(@)]
    /\ UNCHANGED <<pc, queue_of, pipeline, accepted, dispatched, armed, wire,
                   produced, answered, placed, monitor_task, put_while_blocked, outcome,
                   errVars>>
    /\ UNCHANGED <<regVars, dockVars, invoked, prepared, sent, serveVars>>

\* monitor_task: error_queue.get() takes the first record of the error queue
MonitorTaskDone(c) ==
    /\ monitor_task[c].state = "pending"
    /\ error_queue # <<>>
    /\ monitor_task' = [monitor_task EXCEPT ![c] = Done(Head(error_queue))]
    /\ error_queue' = Tail(error_queue)
    /\ UNCHANGED <<pc, queue_of, pipeline, accepted, dispatched, armed, wire,
                   produced, answered, result_queue, placed, fn_task, put_while_blocked,
                   outcome, errors_put>>
    /\ UNCHANGED <<regVars, dockVars, invoked, prepared, sent, serveVars>>

\* what the after_rpc_call hook and validate_incoming may do
HookResults == {"ok", "HookError"}
IncomingResults == {"ok", "ValidationError"}

\* A plausible slip: `except Exception` where the code has
\* `except asyncio.TimeoutError`.
ProcessResultAnyIsTimeout(item, h, v) ==
    IF item.type # "ResultMessage" THEN Raise("LightbusTimeout")
    ELSE IF h # "ok" THEN Raise(h)
    ELSE IF item.error THEN Raise("LightbusServerError")
    ELSE IF v # "ok" THEN Raise(v)
    ELSE Return(item.result)

\* call_rpc_remote lines 117-164, on the item bail_on_error returned; h and v
\* are what the after_rpc_call hook and validate_incoming do when they run
ProcessResult(item, h, v) ==
    IF item.type = "TimeoutError" THEN Raise("LightbusTimeout")
    ELSE IF item.type # "ResultMessage" THEN Raise(item.type)
    ELSE IF h # "ok" THEN Raise(h)
    ELSE IF item.error THEN Raise("LightbusServerError")
    ELSE IF v # "ok" THEN Raise(v)
    ELSE Return(item.result)

\* A plausible slip: the incoming result is validated before the error flag
\* is looked at.
InvokedOnValidateFirst(item, h) ==
    IF item.type # "ResultMessage" THEN <<>>
    ELSE IF h # "ok" THEN <<"after_rpc_call">>
    ELSE <<"after_rpc_call", "validate_incoming">>

\* lines 135-162: the hook and the validator call_rpc_remote runs, in order
InvokedOn(item, h) ==
    IF item.type # "ResultMessage" THEN <<>>
    ELSE IF h # "ok" \/ item.error THEN <<"after_rpc_call">>
    ELSE <<"after_rpc_call", "validate_incoming">>

\* bail_on_error lines 39-49: asyncio.wait returned.  cancel() of a task that is
\* already done leaves it done.
CancelTask(task) == IF task.state = "pending" THEN Cancelled ELSE task

\* A plausible slip: whichever side wins, the other is left as it is.
BailOnErrorReturnNoCancel(c, h, v) ==
    /\ pc[c] = "waiting"
    /\ fn_task[c].state = "done" \/ monitor_task[c].state = "done"
    /\ pc' = [pc EXCEPT ![c] = "done"]
    /\ IF fn_task[c].state = "done"
       THEN /\ outcome' = [outcome EXCEPT ![c] =
                               ProcessResult(fn_task[c].value, h, v)]
            /\ invoked' = [invoked EXCEPT ![c] = InvokedOn(fn_task[c].value, h)]
       ELSE /\ outcome' = [outcome EXCEPT ![c] = Raise(monitor_task[c].value)]
            /\ UNCHANGED invoked
    /\ UNCHANGED <<fn_task, monitor_task>>
    /\ UNCHANGED <<queue_of, pipeline, accepted, dispatched, armed, wire, produced, answered,
                   result_queue, placed, put_while_blocked, errVars>>
    /\ UNCHANGED <<regVars, dockVars, prepared, sent, serveVars>>

BailOnErrorReturn(c, h, v) ==
    /\ pc[c] = "waiting"
    /\ fn_task[c].state = "done" \/ monitor_task[c].state = "done"
    /\ pc' = [pc EXCEPT ![c] = "done"]
    /\ IF fn_task[c].state = "done"
       THEN /\ monitor_task' = [monitor_task EXCEPT ![c] = CancelTask(@)]
            /\ outcome' = [outcome EXCEPT ![c] =
                               ProcessResult(fn_task[c].value, h, v)]
            /\ invoked' = [invoked EXCEPT ![c] = InvokedOn(fn_task[c].value, h)]
            /\ UNCHANGED fn_task
       ELSE /\ fn_task' = [fn_task EXCEPT ![c] = CancelTask(@)]
            /\ outcome' = [outcome EXCEPT ![c] = Raise(monitor_task[c].value)]
            /\ UNCHANGED <<monitor_task, invoked>>
    /\ UNCHANGED <<queue_of, pipeline, accepted, dispatched, armed, wire, produced, answered,
                   result_queue, placed, put_while_blocked, errVars>>
    /\ UNCHANGED <<regVars, dockVars, prepared, sent, serveVars>>

\* The task running call_rpc_remote is cancelled while bail_on_error waits at
\* line 39: CancelledError comes out of asyncio.wait, which leaves the tasks it
\* was given as they are, and bail_on_error has no handler around the wait.
CallerCancelled(c) ==
    /\ pc[c] = "waiting"
    /\ pc' = [pc EXCEPT ![c] = "done"]
    /\ outcome' = [outcome EXCEPT ![c] = Raise("CancelledError")]
    /\ UNCHANGED <<queue_of, pipeline, accepted, dispatched, armed, wire, produced, answered,
                   result_queue, placed, fn_task, monitor_task, put_while_blocked,
                   errVars>>
    /\ UNCHANGED <<regVars, dockVars, invoked, prepared, sent, serveVars>>

\* The pipeline's consumer takes the next command, acknowledges it to the
\* sender, and starts its handler in the background.
ConsumerAccept ==
    /\ pipeline # <<>>
    /\ pipeline' = Tail(pipeline)
    /\ accepted' = accepted \cup {Head(pipeline)}
    /\ UNCHANGED <<pc, queue_of, dispatched, armed, wire, produced, answered, result_queue,
                   placed, fn_task, monitor_task, put_while_blocked, outcome,
                   errVars>>
    /\ UNCHANGED <<regVars, dockVars, invoked, prepared, sent, serveVars>>

\* The dock handles CallRpcCommand: the RPC transport publishes the call.
HandleCallRpc(cmd) ==
    /\ cmd \in accepted
    /\ cmd.type = "CallRpcCommand"
    /\ accepted' = accepted \ {cmd}
    /\ dispatched' = dispatched \cup {cmd.message}
    /\ UNCHANGED <<pc, queue_of, pipeline, armed, wire, produced, answered, result_queue,
                   placed, fn_task, monitor_task, put_while_blocked, outcome,
                   errVars>>
    /\ UNCHANGED <<regVars, dockVars, invoked, prepared, sent, serveVars>>

\* The dock handles ReceiveResultCommand: a receiver for the call's return
\* path that feeds command.destination_queue.
HandleReceiveResult(cmd) ==
    /\ cmd \in accepted
    /\ cmd.type = "ReceiveResultCommand"
    /\ accepted' = accepted \ {cmd}
    /\ armed' = [armed EXCEPT ![cmd.message] =
                    [state |-> "armed", queue |-> cmd.destination_queue]]
    /\ UNCHANGED <<pc, queue_of, pipeline, dispatched, wire, produced, answered, result_queue,
                   placed, fn_task, monitor_task, put_while_blocked, outcome,
                   errVars>>
    /\ UNCHANGED <<regVars, dockVars, invoked, prepared, sent, serveVars>>

\* The remote side answers a published call; it may answer more than once, and
\* a duplicate carries the error flag of the first answer.
RemoteResult(id, err) ==
    /\ id \in dispatched
    /\ produced[id] < MaxResults
    /\ produced[id] > 0 => err = answered[id]
    /\ answered' = [answered EXCEPT ![id] = err]
    /\ produced' = [produced EXCEPT ![id] = @ + 1]
    /\ wire' = [wire EXCEPT ![id] = Append(@, ResultMessage(id, produced[id] + 1, err))]
    /\ UNCHANGED <<pc, queue_of, pipeline, accepted, dispatched, armed,
                   result_queue, placed, fn_task, monitor_task, put_while_blocked,
                   outcome, errVars>>
    /\ UNCHANGED <<regVars, dockVars, invoked, prepared, sent, serveVars>>

\* The armed receiver places a result that arrived on the call's return path
\* onto the destination queue.
ReceiverDeliver(id) ==
    /\ armed[id].state = "armed"
    /\ wire[id] # <<>>
    /\ wire' = [wire EXCEPT ![id] = Tail(@)]
    /\ result_queue' = [result_queue EXCEPT ![armed[id].queue] = Append(@, Head(wire[id]))]
    /\ placed' = [placed EXCEPT ![armed[id].queue] = Append(@, Head(wire[id]))]
    /\ UNCHANGED <<pc, queue_of, pipeline, accepted, dispatched, armed, produced, answered,
                   fn_task, monitor_task, put_while_blocked, outcome, errVars>>
    /\ UNCHANGED <<regVars, dockVars, invoked, prepared, sent, serveVars>>

\* The receiver fails before any result: the exception goes on the destination
\* queue and the receiver stops.
ReceiverError(id) ==
    /\ armed[id].state = "armed"
    /\ placed[armed[id].queue] = <<>>
    /\ armed' = [armed EXCEPT ![id].state = "failed"]
    /\ result_queue' = [result_queue EXCEPT ![armed[id].queue] = Append(@, TransportError(id))]
    /\ placed' = [placed EXCEPT ![armed[id].queue] = Append(@, TransportError(id))]
    /\ UNCHANGED <<pc, queue_of, pipeline, accepted, dispatched, wire, produced, answered,
                   fn_task, monitor_task, put_while_blocked, outcome, errVars>>
    /\ UNCHANGED <<regVars, dockVars, invoked, prepared, sent, serveVars>>

\* The receiver's deadline passes before any result: a TimeoutError instance
\* goes on the destination queue and the receiver stops.
ReceiverTimeout(id) ==
    /\ armed[id].state = "armed"
    /\ placed[armed[id].queue] = <<>>
    /\ armed' = [armed EXCEPT ![id].state = "timed_out"]
    /\ result_queue' = [result_queue EXCEPT ![armed[id].queue] = Append(@, TimeoutError(id))]
    /\ placed' = [placed EXCEPT ![armed[id].queue] = Append(@, TimeoutError(id))]
    /\ UNCHANGED <<pc, queue_of, pipeline, accepted, dispatched, wire, produced, answered,
                   fn_task, monitor_task, put_while_blocked, outcome, errVars>>
    /\ UNCHANGED <<regVars, dockVars, invoked, prepared, sent, serveVars>>

Blocked(c) ==
    /\ pc[c] = "waiting"
    /\ fn_task[c].state = "pending"
    /\ monitor_task[c].state = "pending"
    /\ result_queue[queue_of[c]] = <<>>

ErrorRecords == <<"BackgroundError1", "BackgroundError2", "BackgroundError3">>
ErrorRecord(n) == ErrorRecords[n]

\* A background task fails and its done-callback puts an error record on the
\* error queue.
ErrorPut ==
    /\ Cardinality(errors_put) < MaxErrors
    /\ LET rec == ErrorRecord(Cardinality(errors_put) + 1)
       IN /\ error_queue' = Append(error_queue, rec)
          /\ errors_put' = errors_put \cup {rec}
          /\ put_while_blocked' =
                [c \in Callers |-> IF Blocked(c) THEN put_while_blocked[c] \cup {rec}
                                   ELSE put_while_blocked[c]]
    /\ UNCHANGED <<pc, queue_of, pipeline, accepted, dispatched, armed, wire,
                   produced, answered, result_queue, placed, fn_task, monitor_task, outcome>>
    /\ UNCHANGED <<regVars, dockVars, invoked, prepared, sent, serveVars>>

NextRpc ==
    \/ \E c \in Callers, v \in ValidationResults : CallStart(c, v)
    \/ \E c \in Callers : CallSendReceive(c)
    \/ \E c \in Callers : CallWait(c)
    \/ \E c \in Callers : FnTaskDone(c)
    \/ \E c \in Callers : MonitorTaskDone(c)
    \/ \E c \in Callers : BailOnErrorReturn(c, "ok", "ok")
    \/ ConsumerAccept
    \/ \E cmd \in accepted : HandleCallRpc(cmd)
    \/ \E cmd \in accepted : HandleReceiveResult(cmd)
    \/ \E id \in Callers, err \in BOOLEAN : RemoteResult(id, err)
    \/ \E id \in Callers : ReceiverDeliver(id)
    \/ \E id \in Callers : ReceiverTimeout(id)
    \/ ErrorPut

\* One call on its own, with everything its result processing can meet: a
\* failing receiver, a failing hook, an invalid result.
NextCall ==
    \/ \E v \in ValidationResults : CallStart(1, v)
    \/ CallSendReceive(1)
    \/ CallWait(1)
    \/ FnTaskDone(1)
    \/ MonitorTaskDone(1)
    \/ \E h \in HookResults, v \in IncomingResults : BailOnErrorReturn(1, h, v)
    \/ ConsumerAccept
    \/ \E cmd \in accepted : HandleCallRpc(cmd)
    \/ \E cmd \in accepted : HandleReceiveResult(cmd)
    \/ \E err \in BOOLEAN : RemoteResult(1, err)
    \/ ReceiverDeliver(1)
    \/ ReceiverTimeout(1)
    \/ ReceiverError(1)
    \/ ErrorPut

\* One call whose caller may be cancelled while it waits.
NextCancel ==
    \/ \E v \in ValidationResults : CallStart(1, v)
    \/ CallSendReceive(1)
    \/ CallWait(1)
    \/ FnTaskDone(1)
    \/ MonitorTaskDone(1)
    \/ BailOnErrorReturn(1, "ok", "ok")
    \/ CallerCancelled(1)
    \/ ConsumerAccept
    \/ \E cmd \in accepted : HandleCallRpc(cmd)
    \/ \E cmd \in accepted : HandleReceiveResult(cmd)
    \/ \E err \in BOOLEAN : RemoteResult(1, err)
    \/ ReceiverDeliver(1)
    \/ ReceiverTimeout(1)
    \/ ErrorPut

\* Two callers and a remote side that never answers: no result queue is fed.
NextSilent ==
    \/ \E c \in Callers, v \in ValidationResults : CallStart(c, v)
    \/ \E c \in Callers : CallSendReceive(c)
    \/ \E c \in Callers : CallWait(c)
    \/ \E c \in Callers : MonitorTaskDone(c)
    \/ \E c \in Callers : BailOnErrorReturn(c, "ok", "ok")
    \/ ConsumerAccept
    \/ \E cmd \in accepted : HandleCallRpc(cmd)
    \/ \E cmd \in accepted : HandleReceiveResult(cmd)
    \/ ErrorPut

\* The event loop runs every task that can run: a caller that can take its
\* next step takes it, the consumer takes a command that waits, a handler that
\* was started runs, a monitor whose queue has a record gets one.  Nothing
\* obliges a call to be made or a background task to fail.
FairSilent ==
    /\ \A c \in Callers : WF_vars(CallSendReceive(c))
    /\ \A c \in Callers : WF_vars(CallWait(c))
    /\ \A c \in Callers : WF_vars(MonitorTaskDone(c))
    /\ \A c \in Callers : WF_vars(BailOnErrorReturn(c, "ok", "ok"))
    /\ WF_vars(ConsumerAccept)
    /\ WF_vars(\E cmd \in accepted : HandleCallRpc(cmd))
    /\ WF_vars(\E cmd \in accepted : HandleReceiveResult(cmd))

----------------------------------------------------------------------------
(* Serving local procedures: handle_execute_rpc and _call_rpc_local *)

\* ExecuteRpcCommands a run handles
MaxExecutes == 2

RpcMessage(id, api_name, procedure_name) ==
    [type |-> "RpcMessage", id |-> id, api_name |-> api_name,
     procedure_name |-> procedure_name]

\* the incoming calls: they differ in every field
RpcMessages == {RpcMessage(1, "a", "ping"), RpcMessage(2, "b", "pong")}

\* what the user's procedure does: return a value, raise an ordinary
\* exception, raise the sudden-death sentinel, or be cancelled
ProcedureResults == {Return("value"), Return("object"), Raise("ValueError"),
                     Raise("SuddenDeathException"), Raise("CancelledError")}
\* what api_registry.get and validate_event_or_rpc_name do
LocalLookups == {"ok", "UnknownApi", "InvalidName"}
\* what validate_incoming, the two hooks and validate_outgoing do
ExecuteIncomingResults == {"ok", "InvalidIncoming"}
BeforeHookResults == {"ok", "BeforeHookError"}
AfterHookResults == {"ok", "AfterHookError"}
OutgoingResults == {"ok", "InvalidOutgoing"}

\* deform_to_bus: a value that is no wire shape yet is turned into one
deform_to_bus(v) == IF v = "object" THEN "deformed_object" ELSE v

\* ResultMessage(result=..., rpc_message_id=..., api_name=...,
\* procedure_name=...): an exception given as the result sets error
NewResultMessage(result, rpc_message_id, api_name, procedure_name) ==
    [type |-> "ResultMessage", rpc_message_id |-> rpc_message_id,
     api_name |-> api_name, procedure_name |-> procedure_name,
     result |-> result.value, error |-> (result.kind = "raise")]

SendResultCommand(message, rpc_message) ==
    [type |-> "SendResultCommand", message |-> message,
     rpc_message |-> rpc_message]

\* _call_rpc_local, lines 166-199: every exception is raised again
_call_rpc_local(found, procedure) ==
    IF found # "ok" THEN Raise(found) ELSE procedure

NotCalled == [kind |-> "none", value |-> None]

\* A plausible slip: no `except Exception` clause.
TryCallRpcLocalNoCatch(local) ==
    IF local = Raise("SuddenDeathException") THEN [do |-> "return", result |-> local]
    ELSE IF local.kind = "raise" THEN [do |-> "raise", result |-> local]
    ELSE [do |-> "result", result |-> Return(deform_to_bus(local.value))]

\* A plausible slip: no `except SuddenDeathException` clause.
TryCallRpcLocalNoSuddenDeath(local) ==
    IF local = Raise("CancelledError") THEN [do |-> "raise", result |-> local]
    ELSE IF local.kind = "raise" THEN [do |-> "result", result |-> local]
    ELSE [do |-> "result", result |-> Return(deform_to_bus(local.value))]

\* A plausible slip: no `except asyncio.CancelledError` clause, where
\* CancelledError is an Exception.
TryCallRpcLocalNoCancelled(local) ==
    IF local = Raise("SuddenDeathException") THEN [do |-> "return", result |-> local]
    ELSE IF local.kind = "raise" THEN [do |-> "result", result |-> local]
    ELSE [do |-> "result", result |-> Return(deform_to_bus(local.value))]

\* handle_execute_rpc lines 216-230: the try around _call_rpc_local
TryCallRpcLocal(local) ==
    IF local = Raise("SuddenDeathException") THEN [do |-> "return", result |-> local]
    ELSE IF local = Raise("CancelledError") THEN [do |-> "raise", result |-> local]
    ELSE IF local.kind = "raise" THEN [do |-> "result", result |-> local]
    ELSE [do |-> "result", result |-> Return(deform_to_bus(local.value))]

\* handle_execute_rpc, lines 211-247, up to its send: what _call_rpc_local
\* gave, what the handler returns or raises, what it invoked and what it sent
handle_execute_rpc(message, vin, hb, found, procedure, ha, vout) ==
    LET local == _call_rpc_local(found, procedure)
        t == TryCallRpcLocal(local)
        result_message == NewResultMessage(t.result, message.id, message.api_name,
                                           message.procedure_name)
    IN IF vin # "ok"
       THEN [local |-> NotCalled, outcome |-> Raise(vin),
             invoked |-> <<"validate_incoming">>, sent |-> <<>>]
       ELSE IF hb # "ok"
       THEN [local |-> NotCalled, outcome |-> Raise(hb),
             invoked |-> <<"validate_incoming", "before_rpc_execution">>,
             sent |-> <<>>]
       ELSE IF t.do = "return"
       THEN [local |-> local, outcome |-> Return(None),
             invoked |-> <<"validate_incoming", "before_rpc_execution">>,
             sent |-> <<>>]
       ELSE IF t.do = "raise"
       THEN [local |-> local, outcome |-> Raise(local.value),
             invoked |-> <<"validate_incoming", "before_rpc_execution">>,
             sent |-> <<>>]
       ELSE IF ha # "ok"
       THEN [local |-> local, outcome |-> Raise(ha),
             invoked |-> <<"validate_incoming", "before_rpc_execution",
                           "after_rpc_execution">>,
             sent |-> <<>>]
       ELSE IF result_message.error
       THEN [local |-> local, outcome |-> Return(None),
             invoked |-> <<"validate_incoming", "before_rpc_execution",
                           "after_rpc_execution">>,
             sent |-> <<SendResultCommand(result_message, message)>>]
       ELSE IF vout # "ok"
       THEN [local |-> local, outcome |-> Raise(vout),
             invoked |-> <<"validate_incoming", "before_rpc_execution",
                           "after_rpc_execution", "validate_outgoing">>,
             sent |-> <<>>]
       ELSE [local |-> local, outcome |-> Return(None),
             invoked |-> <<"validate_incoming", "before_rpc_execution",
                           "after_rpc_execution", "validate_outgoing">>,
             sent |-> <<SendResultCommand(result_message, message)>>]

\* The handler runs for an ExecuteRpcCommand up to the send at line 245.
ExecuteRpc(message, vin, hb, found, procedure, ha, vout) ==
    /\ Len(executions) < MaxExecutes
    /\ LET r == handle_execute_rpc(message, vin, hb, found, procedure, ha, vout)
       IN /\ executions' = Append(executions,
                 [message |-> message, local |-> r.local, outcome |-> r.outcome,
                  invoked |-> r.invoked, sent |-> r.sent,
                  state |-> IF r.sent = <<>> THEN "done" ELSE "sending"])
          /\ pipeline' = pipeline \o r.sent
    /\ UNCHANGED <<pc, queue_of, accepted, dispatched, armed, wire, produced,
                   answered, result_queue, placed, fn_task, monitor_task,
                   put_while_blocked, invoked, prepared, sent, outcome>>
    /\ UNCHANGED <<regVars, dockVars, errVars, api_registry, consuming, fallback>>

\* lines 245-247: .wait() returns once the SendResultCommand is accepted
ExecuteSendAccepted(i) ==
    /\ i \in 1..Len(executions)
    /\ executions[i].state = "sending"
    /\ ~InPipeline(executions[i].sent[1])
    /\ executions' = [executions EXCEPT ![i].state = "done"]
    /\ UNCHANGED <<regVars, dockVars, errVars, rpcVars, api_registry, consuming,
                   fallback>>

NextExecute ==
    \/ \E message \in RpcMessages, vin \in ExecuteIncomingResults,
          hb \in BeforeHookResults, found \in LocalLookups,
          procedure \in ProcedureResults, ha \in AfterHookResults,
          vout \in OutgoingResults :
           ExecuteRpc(message, vin, hb, found, procedure, ha, vout)
    \/ \E i \in 1..MaxExecutes : ExecuteSendAccepted(i)
    \/ ConsumerAccept

----------------------------------------------------------------------------
(* consume_rpcs *)

\* how many APIs are registered or passed to consume_rpcs
MaxApis == 2

ServedApis == {"a", "b"}
Api(name) == [meta |-> [name |-> name]]
ApiLists == UNION {[1..k -> {Api(n) : n \in ServedApis}] : k \in 0..MaxApis}

\* the apis argument: omitted (None) or a list
ApisOmitted == [given |-> FALSE, apis |-> <<>>]
ApisGiven(apis) == [given |-> TRUE, apis |-> apis]
ApisArguments == {ApisOmitted} \cup {ApisGiven(apis) : apis \in ApiLists}

ConsumeRpcsCommand(api_names) ==
    [type |-> "ConsumeRpcsCommand", api_names |-> api_names]

NotConsuming == [state |-> "idle", argument |-> ApisOmitted,
                 outcome |-> Return(None), sent |-> <<>>]

\* A plausible slip: `apis = apis or self.api_registry.all()`.
consume_rpcs_empty_means_all(argument, registered) ==
    LET apis == IF argument.apis = <<>> THEN registered ELSE argument.apis
    IN IF apis = <<>>
       THEN [outcome |-> Raise("NoApisToListenOn"), sent |-> <<>>]
       ELSE [outcome |-> Return(None),
             sent |-> <<ConsumeRpcsCommand([i \in 1..Len(apis) |->
                                               apis[i].meta.name])>>]

\* consume_rpcs, lines 58-75, up to its send
consume_rpcs(argument, registered) ==
    LET apis == IF ~argument.given THEN registered ELSE argument.apis
    IN IF apis = <<>>
       THEN [outcome |-> Raise("NoApisToListenOn"), sent |-> <<>>]
       ELSE [outcome |-> Return(None),
             sent |-> <<ConsumeRpcsCommand([i \in 1..Len(apis) |->
                                               apis[i].meta.name])>>]

ConsumeRpcs(argument) ==
    /\ consuming.state = "idle"
    /\ LET r == consume_rpcs(argument, api_registry)
       IN /\ consuming' = [state |-> IF r.sent = <<>> THEN "done" ELSE "sending",
                           argument |-> argument, outcome |-> r.outcome,
                           sent |-> r.sent]
          /\ pipeline' = pipeline \o r.sent
    /\ UNCHANGED <<pc, queue_of, accepted, dispatched, armed, wire, produced,
                   answered, result_queue, placed, fn_task, monitor_task,
                   put_while_blocked, invoked, prepared, sent, outcome>>
    /\ UNCHANGED <<regVars, dockVars, errVars, executions, api_registry, fallback>>

\* line 75: .wait() returns once the ConsumeRpcsCommand is accepted
ConsumeRpcsAccepted ==
    /\ consuming.state = "sending"
    /\ ~InPipeline(consuming.sent[1])
    /\ consuming' = [consuming EXCEPT !.state = "done"]
    /\ UNCHANGED <<regVars, dockVars, errVars, rpcVars, executions, api_registry,
                   fallback>>

NextConsumeRpcs ==
    \/ \E argument \in ApisArguments : ConsumeRpcs(argument)
    \/ ConsumeRpcsAccepted
    \/ ConsumerAccept

----------------------------------------------------------------------------
(* Command dispatch: the singledispatch `handle` of the event dock and of the
   RPC/result subclient *)

CommandTypes == {"CallRpcCommand", "ReceiveResultCommand", "ExecuteRpcCommand",
                 "SendResultCommand", "ConsumeRpcsCommand",
                 "ConsumeEventsCommand", "SendEventCommand", "CloseCommand"}

\* the types each `handle` has a registered handler for
EventDockRegistered == {"ConsumeEventsCommand", "CloseCommand"}
RpcResultClientRegistered == {"ExecuteRpcCommand"}

ConsumeEventsCommand(events) == [type |-> "ConsumeEventsCommand", events |-> events]
ExecuteRpcCommand(message) == [type |-> "ExecuteRpcCommand", message |-> message]
\* a command of a type, its payload left out
OtherCommand(type) == [type |-> type]

NoFallback == [dock |-> None, command |-> None, result |-> Return(None)]

\* command.__name__: a class has a __name__, an instance of it has not
InstanceName(command) == Raise("AttributeError")
\* command.__class__.__name__
ClassName(command) == Return(command.type)

\* raise NotImplementedError(f"Did not recognise command {name}"): the name is
\* evaluated first
DidNotRecognise(name) ==
    IF name.kind = "raise" THEN name ELSE Raise("NotImplementedError")

\* EventDock.handle, lines 18-20: the fallback of the dispatch
EventDockFallback(command) ==
    /\ fallback' = [dock |-> "EventDock", command |-> command.type,
                    result |-> DidNotRecognise(InstanceName(command))]
    /\ UNCHANGED <<regVars, dockVars, errVars, rpcVars, executions, api_registry,
                   consuming>>

\* RpcResultClient.handle, lines 207-209: the fallback of the dispatch
RpcResultClientFallback(command) ==
    /\ fallback' = [dock |-> "RpcResultClient", command |-> command.type,
                    result |-> DidNotRecognise(ClassName(command))]
    /\ UNCHANGED <<regVars, dockVars, errVars, rpcVars, executions, api_registry,
                   consuming>>

\* EventDock.handle(command): dispatch on the command's type
EventDockHandle(command) ==
    \/ /\ command.type = "ConsumeEventsCommand"
       /\ HandleConsumeEvents(command.events)
    \/ /\ command.type = "CloseCommand"
       /\ CloseCancel
    \/ /\ command.type \notin EventDockRegistered
       /\ EventDockFallback(command)

\* RpcResultClient.handle(command): dispatch on the command's type
RpcResultClientHandle(command) ==
    \/ /\ command.type = "ExecuteRpcCommand"
       /\ \E procedure \in ProcedureResults :
              ExecuteRpc(command.message, "ok", "ok", "ok", procedure, "ok", "ok")
    \/ /\ command.type \notin RpcResultClientRegistered
       /\ RpcResultClientFallback(command)

NextDispatch ==
    \/ \E events \in DockRequests : EventDockHandle(ConsumeEventsCommand(events))
    \/ EventDockHandle(OtherCommand("CloseCommand"))
    \/ CloseTransports
    \/ \E type \in CommandTypes \ EventDockRegistered :
           EventDockHandle(OtherCommand(type))
    \/ \E message \in RpcMessages :
           RpcResultClientHandle(ExecuteRpcCommand(message))
    \/ \E type \in CommandTypes \ RpcResultClientRegistered :
           RpcResultClientHandle(OtherCommand(type))
    \/ \E i \in 1..MaxExecutes : ExecuteSendAccepted(i)
    \/ ConsumerAccept

----------------------------------------------------------------------------
(* Initial states and specifications *)

InitPluginVars ==
    /\ entrypoints = <<>>
    /\ transport_lookup = NoTransportLookup

InitRegistryVars ==
    /\ registry = EmptyRegistry
    /\ lookup = NoLookup
    /\ schema_transport_pool = None
    /\ InitPluginVars

InitDockVars ==
    /\ listener_tasks = {}
    /\ composite = [g \in CommandIds |-> NoComposite]
    /\ listener = [l \in ListenerIds |-> NoListener]
    /\ destination_queue = [g \in CommandIds |-> <<>>]
    /\ handled = <<>>
    /\ closing = [state |-> "idle", exc |-> None]
    /\ pool_closed = [p \in Pools |-> 0]

InitErrVars ==
    /\ error_queue = <<>>
    /\ errors_put = {}

InitRpcVars ==
    /\ pc = [c \in Callers |-> "start"]
    /\ queue_of = [c \in Callers |-> 0]
    /\ pipeline = <<>>
    /\ accepted = {}
    /\ dispatched = {}
    /\ armed = [c \in Callers |-> [state |-> "none", queue |-> 0]]
    /\ wire = [c \in Callers |-> <<>>]
    /\ produced = [c \in Callers |-> 0]
    /\ answered = [c \in Callers |-> FALSE]
    /\ result_queue = [c \in Callers |-> <<>>]
    /\ placed = [c \in Callers |-> <<>>]
    /\ fn_task = [c \in Callers |-> NotStarted]
    /\ monitor_task = [c \in Callers |-> NotStarted]
    /\ put_while_blocked = [c \in Callers |-> {}]
    /\ invoked = [c \in Callers |-> <<>>]
    /\ prepared = [c \in Callers |-> <<>>]
    /\ sent = [c \in Callers |-> <<>>]
    /\ outcome = [c \in Callers |-> Return(None)]

InitServeVars ==
    /\ executions = <<>>
    /\ api_registry = <<>>
    /\ consuming = NotConsuming
    /\ fallback = NoFallback

Init == InitRegistryVars /\ InitDockVars /\ InitErrVars /\ InitRpcVars
            /\ InitServeVars

\* every registry that configures event pools only
EventRegistries ==
    {[n \in S |-> [_RegistryEntry EXCEPT !.event = f[n]]] :
        S \in SUBSET ApiNames, f \in [ApiNames -> Pools]}

\* every registry that configures pools of one kind only
PoolRegistries ==
    {[n \in S |-> [_RegistryEntry EXCEPT ![t] = f[n]]] :
        S \in SUBSET ApiNames, f \in [ApiNames -> Pools], t \in PoolsTypes}

InitPools ==
    /\ registry \in PoolRegistries
    /\ lookup = NoLookup
    /\ schema_transport_pool = None
    /\ InitPluginVars
    /\ InitDockVars /\ InitErrVars /\ InitRpcVars /\ InitServeVars

InitConsume ==
    /\ registry \in EventRegistries
    /\ lookup = NoLookup
    /\ schema_transport_pool = None
    /\ InitPluginVars
    /\ InitDockVars /\ InitErrVars /\ InitRpcVars /\ InitServeVars

InitDock ==
    /\ registry = DockRegistry
    /\ lookup = NoLookup
    /\ schema_transport_pool = None
    /\ InitPluginVars
    /\ InitDockVars /\ InitErrVars /\ InitRpcVars /\ InitServeVars

\* every installation of at most MaxEntryPoints entry points
InitTransports ==
    /\ registry = EmptyRegistry
    /\ lookup = NoLookup
    /\ schema_transport_pool = None
    /\ entrypoints \in EntryPointLists
    /\ transport_lookup = NoTransportLookup
    /\ InitDockVars /\ InitErrVars /\ InitRpcVars /\ InitServeVars

InitConsumeRpcs ==
    /\ InitRegistryVars /\ InitDockVars /\ InitErrVars /\ InitRpcVars
    /\ executions = <<>>
    /\ api_registry \in ApiLists
    /\ consuming = NotConsuming
    /\ fallback = NoFallback

Next ==
    \/ NextRegistry \/ NextPools \/ NextConsume \/ NextDock \/ NextRpc \/ NextCall
    \/ NextExecute \/ NextConsumeRpcs \/ NextDispatch
    \/ NextDefaults \/ NextTransports \/ NextCancel \/ NextSilent

Spec == Init /\ [][Next]_vars
SpecRegistry == Init /\ [][NextRegistry]_vars
SpecPools == InitPools /\ [][NextPools]_vars
SpecConsume == InitConsume /\ [][NextConsume]_vars
SpecDock == InitDock /\ [][NextDock]_vars
SpecRpc == Init /\ [][NextRpc]_vars
SpecCall == Init /\ [][NextCall]_vars
SpecCancel == Init /\ [][NextCancel]_vars
SpecSilent == Init /\ [][NextSilent]_vars /\ FairSilent
SpecExecute == Init /\ [][NextExecute]_vars
SpecConsumeRpcs == InitConsumeRpcs /\ [][NextConsumeRpcs]_vars
SpecDispatch == InitDock /\ [][NextDispatch]_vars
SpecDefaults == Init /\ [][NextDefaults]_vars
SpecTransports == InitTransports /\ [][NextTransports]_vars

----------------------------------------------------------------------------
(* The claims *)

IsSuffix(s, t) == \E k \in 0..Len(t) : s = SubSeq(t, k + 1, Len(t))

\* C1 (SpecRpc): the result receiver of a call is armed before the RPC
\* transport dispatches the call, so no result is ever produced for a call
\* whose receiver is not armed.  call_rpc_remote sends the CallRpcCommand
\* first, so this fails.
C1_ReceiverArmedBeforeDispatch ==
    \A id \in Callers :
        (id \in dispatched \/ produced[id] > 0) => armed[id].state # "none"

\* C2 (SpecRpc): when an error record is put on the error queue while a caller
\* is blocked in call_rpc_remote, the caller raises that record's exception: a
\* caller whose monitor dequeued the record does not end any other way, and a
\* caller that is still blocked with no result in sight can still get the
\* record (it is on the error queue or in its monitor task).  A result that
\* wins the race while the record stays on the queue is not held against it.
C2_ErrorPutWhileBlockedIsRaised ==
    \A c \in Callers :
        put_while_blocked[c] # {} =>
            /\ (pc[c] = "done" /\ monitor_task[c].state = "done") =>
                  /\ outcome[c].kind = "raise"
                  /\ outcome[c].value = monitor_task[c].value
            /\ (/\ pc[c] = "waiting"
                /\ fn_task[c].state = "pending"
                /\ result_queue[queue_of[c]] = <<>>) =>
                  \/ \E i \in 1..Len(error_queue) :
                         error_queue[i] \in put_while_blocked[c]
                  \/ /\ monitor_task[c].state = "done"
                     /\ monitor_task[c].value \in put_while_blocked[c]

\* C3 (SpecRpc): the one item a caller takes from its result queue is the first
\* item placed there, every item placed on a call's queue carries that call's
\* id, and a call that returns returns the first result message of its own id:
\* duplicates placed later change nothing and reach no other caller.
C3_FirstResultWins ==
    \A c \in Callers :
        /\ \A i \in 1..Len(placed[c]) : placed[c][i].rpc_message_id = c
        /\ fn_task[c].state = "done" =>
              /\ queue_of[c] = c
              /\ fn_task[c].value = placed[c][1]
        /\ (pc[c] = "done" /\ outcome[c].kind = "return") =>
              /\ fn_task[c].state = "done"
              /\ fn_task[c].value.type = "ResultMessage"
              /\ fn_task[c].value.rpc_message_id = c
              /\ outcome[c].value = placed[c][1].result
              /\ outcome[c].value = ResultValue(1)

\* a caller returned its first result although a duplicate was placed too,
\* while the other caller also got a result of its own
C3_Witness ==
    \E c \in Callers :
        /\ pc[c] = "done" /\ outcome[c].kind = "return"
        /\ Len(placed[c]) = 2
        /\ placed[c][2].type = "ResultMessage"
        /\ \E d \in Callers \ {c} : pc[d] = "done" /\ fn_task[d].state = "done"

Running(l) == listener[l].state = "running"

\* C4 (SpecDock): once the CloseCommand handler is past its cancel step, every
\* per-transport listener of every registered composite task has finished, and
\* no listener is consuming from a pool whose close() was invoked.
C4_ListenersFinishedBeforeClose ==
    /\ closing.state # "idle" =>
          \A l \in ListenerIds : l[1] \in listener_tasks => ~Running(l)
    /\ \A p \in Pools :
          pool_closed[p] > 0 =>
              \A l \in ListenerIds : listener[l].pool = p => ~Running(l)

EventPools(reg) == {reg[n].event : n \in DOMAIN reg} \ {None}

\* C5 (SpecDock): after consume_events and close(), the CloseCommand handler
\* has completed without error, no composite task is left pending, and close()
\* was invoked exactly once on every event pool of the registry.
C5_CloseCompletesAndClosesPools ==
    (closing.state \in {"raised", "done"} /\ listener_tasks # {}) =>
        /\ closing.state = "done"
        /\ \A g \in listener_tasks : composite[g].state # "pending"
        /\ \A p \in EventPools(registry) : pool_closed[p] = 1

\* C6 (SpecDock): the exception of every failed per-transport listener is put
\* on the error queue once the done-callback of its composite task has run.
C6_EveryListenerExceptionQueued ==
    \A l \in ListenerIds :
        (listener[l].state = "failed" /\ composite[l[1]].callback # "scheduled")
            => listener[l].exc \in errors_put

EventsFrom(l, queue) ==
    LET own == SelectSeq(queue, LAMBDA x : x[1] = l)
    IN [i \in 1..Len(own) |-> own[i][2]]

\* C7 (SpecDock): what a listener has put on destination_queue, followed by the
\* events of the current batch it has yet to put, is the concatenation of the
\* batches its stream has yielded, in yield order; the listener's events in the
\* queue are the last ones it put, in that order.
C7_ForwardedInStreamOrder ==
    \A l \in ListenerIds :
        /\ listener[l].forwarded \o listener[l].event_messages
               = Flatten(listener[l].yielded)
        /\ IsSuffix(EventsFrom(l, destination_queue[l[1]]), listener[l].forwarded)

\* two batches were yielded and all their events, three or more, were put
C7_Witness ==
    \E l \in ListenerIds :
        /\ Len(listener[l].yielded) = 2
        /\ listener[l].event_messages = <<>>
        /\ Len(listener[l].forwarded) >= 3

\* C8 (SpecDock): a listener's stream yields a new batch only when every event
\* of the batch before has been put; a listener with events left to put while
\* destination_queue is full neither puts nor pulls.
C8_PullOnlyAfterBatchPut ==
    [][\A l \in ListenerIds :
          /\ listener'[l].yielded # listener[l].yielded
                => listener[l].event_messages = <<>>
          /\ (/\ listener[l].event_messages # <<>>
              /\ Len(destination_queue[l[1]]) = QueueMax)
                => /\ listener'[l].yielded = listener[l].yielded
                   /\ listener'[l].forwarded = listener[l].forwarded]_vars

\* a running listener holds events of a pulled batch while the queue is full
C8_Witness ==
    \E l \in ListenerIds :
        /\ Running(l)
        /\ listener[l].event_messages # <<>>
        /\ Len(destination_queue[l[1]]) = QueueMax

\* the pool an API resolves to, by the rule of the spec: its own, else default's
HasPool(reg, n, t) == n \in DOMAIN reg /\ reg[n][t] # None
ResolvedPool(reg, n, t) ==
    IF HasPool(reg, n, t) THEN reg[n][t]
    ELSE IF HasPool(reg, "default", t) THEN reg["default"][t]
    ELSE None

\* C9 (SpecConsume): a handled ConsumeEventsCommand whose APIs all resolve has
\* one listener per distinct event pool serving a requested API; each listener
\* listens for exactly the requested pairs whose API resolves to its pool, in
\* request order, and each requested pair is listened for by one listener.
C9_OneListenerPerPool ==
    \A h \in 1..Len(handled) :
        handled[h].result.kind = "return" =>
            LET g == handled[h].task
                events == handled[h].events
                pools == {ResolvedPool(registry, events[i][1], "event") :
                             i \in 1..Len(events)}
            IN /\ composite[g].children = Cardinality(pools)
               /\ {listener[l].pool : l \in ChildrenOf(g)} = pools
               /\ \A l \in ChildrenOf(g) :
                     listener[l].listen_for =
                         SelectSeq(events,
                                   LAMBDA e : ResolvedPool(registry, e[1], "event")
                                                  = listener[l].pool)
               /\ \A i \in 1..Len(events) :
                     Cardinality({l \in ChildrenOf(g) :
                                     InList(events[i], listener[l].listen_for)}) = 1

\* scenario 4: a and b on one pool, c on another, two listeners
C9_Witness ==
    \E g \in listener_tasks :
        /\ composite[g].children = 2
        /\ composite[g].events = <<<<"a", "x">>, <<"b", "y">>, <<"c", "z">>>>
        /\ \E l, m \in ChildrenOf(g) :
              /\ listener[l].listen_for = <<<<"a", "x">>, <<"b", "y">>>>
              /\ listener[m].listen_for = <<<<"c", "z">>>>

\* C10 (SpecRegistry): get_K_transport_pool(A) returns A's own K pool if it has
\* one, else (A not "default") the default entry's K pool if there is one, else
\* raises TransportNotFound; pools of another kind never satisfy the lookup.
C10_PoolResolution ==
    (lookup.op = "get_pool" /\ lookup.default = empty) =>
        LET n == lookup.api_name
            t == lookup.transport_type
        IN /\ HasPool(registry, n, t) => lookup.result = Return(registry[n][t])
           /\ (~HasPool(registry, n, t) /\ n # "default"
                   /\ HasPool(registry, "default", t))
                 => lookup.result = Return(registry["default"][t])
           /\ (~HasPool(registry, n, t)
                   /\ (n = "default" \/ ~HasPool(registry, "default", t)))
                 => lookup.result = Raise("TransportNotFound")

\* an API with a pool of another kind only got the default entry's pool
C10_Witness ==
    /\ lookup.op = "get_pool" /\ lookup.default = empty
    /\ lookup.api_name # "default"
    /\ lookup.api_name \in DOMAIN registry
    /\ ~HasPool(registry, lookup.api_name, lookup.transport_type)
    /\ HasPool(registry, "default", lookup.transport_type)
    /\ lookup.result = Return(registry["default"][lookup.transport_type])

\* how often a name occurs in a list
Occurrences(x, xs) == Cardinality({i \in 1..Len(xs) : xs[i] = x})

\* the names of a list, as a set
NamesOf(xs) == {xs[i] : i \in 1..Len(xs)}

\* C11 (SpecPools): for a list of API names that all resolve, every input name
\* appears in exactly one pair of the grouped lookup's result and exactly once
\* there, and no name outside the input appears.  A name given twice is listed
\* twice, so this fails.
C11_GroupingIsDisjointUnion ==
    (lookup.op = "get_pools" /\ lookup.result.kind = "return") =>
        LET items == lookup.result.value
        IN /\ \A n \in NamesOf(lookup.api_names) :
                 /\ Cardinality({i \in 1..Len(items) :
                                    n \in NamesOf(items[i].api_names)}) = 1
                 /\ \A i \in 1..Len(items) :
                        Occurrences(n, items[i].api_names) <= 1
           /\ \A i \in 1..Len(items) :
                 NamesOf(items[i].api_names) \subseteq NamesOf(lookup.api_names)

\* C12 (SpecPools): in the result of a grouped lookup each pool appears in at
\* most one pair, every name of a pair resolves to the pair's pool, two input
\* names are in the same pair iff they resolve to the same pool, and the names
\* of a pair are the input names resolving to its pool, in input order.
C12_GroupedByResolvedPool ==
    (lookup.op = "get_pools" /\ lookup.result.kind = "return") =>
        LET items == lookup.result.value
            t == lookup.transport_type
            names == lookup.api_names
        IN /\ \A i, j \in 1..Len(items) :
                 items[i].pool = items[j].pool => i = j
           /\ \A i \in 1..Len(items) :
                 /\ \A n \in NamesOf(items[i].api_names) :
                        ResolvedPool(registry, n, t) = items[i].pool
                 /\ items[i].api_names =
                        SelectSeq(names, LAMBDA n :
                                      ResolvedPool(registry, n, t) = items[i].pool)
           /\ \A n, m \in NamesOf(names) :
                 (\E i \in 1..Len(items) :
                      {n, m} \subseteq NamesOf(items[i].api_names))
                     <=> ResolvedPool(registry, n, t) = ResolvedPool(registry, m, t)

\* two pairs; one holds two different names, one of them served by the default
C12_Witness ==
    /\ lookup.op = "get_pools" /\ lookup.result.kind = "return"
    /\ Len(lookup.result.value) = 2
    /\ \E i \in 1..2 :
          /\ Len(lookup.result.value[i].api_names) = 2
          /\ lookup.result.value[i].api_names[1] # lookup.result.value[i].api_names[2]
          /\ \E n \in NamesOf(lookup.result.value[i].api_names) :
                 n \notin DOMAIN registry

\* the item bail_on_error handed back to a finished call
GotItem(c) == pc[c] = "done" /\ fn_task[c].state = "done"

\* C13 (SpecCall): a call whose result-queue item is a TimeoutError raises
\* LightbusTimeout, a call whose item is another exception raises that
\* exception; neither runs the after_rpc_call hook (or any validator) and
\* neither returns.
C13_ExceptionItemsAreRaised ==
    \A c \in Callers :
        (GotItem(c) /\ fn_task[c].value.type # "ResultMessage") =>
            /\ outcome[c].kind = "raise"
            /\ outcome[c].value =
                  IF fn_task[c].value.type = "TimeoutError"
                  THEN "LightbusTimeout" ELSE fn_task[c].value.type
            /\ invoked[c] = <<>>

\* a call took an exception that is no timeout from its queue and raised it
C13_Witness ==
    \E c \in Callers :
        /\ GotItem(c) /\ fn_task[c].value.type = "TransportError"
        /\ outcome[c] = Raise("TransportError")

\* C14 (SpecCall): a call whose result-queue item is a ResultMessage runs the
\* after_rpc_call hook first and once; if the hook passes, a message with
\* error set makes the call raise LightbusServerError with no incoming
\* validation, and any other message is validated and, if valid, its result
\* is returned.
C14_ResultMessageProcessing ==
    \A c \in Callers :
        (GotItem(c) /\ fn_task[c].value.type = "ResultMessage") =>
            /\ invoked[c] # <<>>
            /\ invoked[c][1] = "after_rpc_call"
            /\ Occurrences("after_rpc_call", invoked[c]) = 1
            /\ outcome[c] # Raise("HookError") =>
                  IF fn_task[c].value.error
                  THEN /\ outcome[c] = Raise("LightbusServerError")
                       /\ invoked[c] = <<"after_rpc_call">>
                  ELSE /\ invoked[c] = <<"after_rpc_call", "validate_incoming">>
                       /\ outcome[c] # Raise("ValidationError") =>
                             outcome[c] = Return(fn_task[c].value.result)

\* a call raised the server's error after its hook, with a duplicate answer
\* left unread
C14_Witness ==
    \E c \in Callers :
        /\ GotItem(c) /\ outcome[c] = Raise("LightbusServerError")
        /\ invoked[c] = <<"after_rpc_call">>
        /\ Len(placed[c]) = 2

\* an exception that is neither the sudden-death sentinel nor a cancellation
Ordinary(local) ==
    /\ local.kind = "raise"
    /\ local.value \notin {"SuddenDeathException", "CancelledError"}

\* C15 (SpecExecute): when the local procedure raises an ordinary exception the
\* handler does not fail with it: unless the after_rpc_execution hook itself
\* fails, exactly one SendResultCommand is sent, whose ResultMessage has error
\* set and the exception as its result; and every SendResultCommand carries the
\* incoming message and its id, api_name and procedure_name.
C15_ExceptionBecomesErrorResult ==
    \A i \in 1..Len(executions) :
        LET e == executions[i]
        IN /\ Ordinary(e.local) =>
                 /\ e.outcome.kind = "raise" =>
                        /\ e.outcome.value = "AfterHookError"
                        /\ e.sent = <<>>
                 /\ e.outcome.kind = "return" =>
                        /\ Len(e.sent) = 1
                        /\ e.sent[1].message.error
                        /\ e.sent[1].message.result = e.local.value
           /\ \A k \in 1..Len(e.sent) :
                 /\ e.sent[k].type = "SendResultCommand"
                 /\ e.sent[k].rpc_message = e.message
                 /\ e.sent[k].message.rpc_message_id = e.message.id
                 /\ e.sent[k].message.api_name = e.message.api_name
                 /\ e.sent[k].message.procedure_name = e.message.procedure_name

\* the procedure raised ValueError, the error result was sent and accepted,
\* and the handler returned
C15_Witness ==
    \E i \in 1..Len(executions) :
        /\ executions[i].local = Raise("ValueError")
        /\ executions[i].state = "done"
        /\ executions[i].outcome.kind = "return"
        /\ Len(executions[i].sent) = 1
        /\ executions[i].sent[1] \in accepted

\* C16 (SpecExecute): when the local procedure raises the sudden-death
\* sentinel, handle_execute_rpc returns normally, has not invoked the
\* after_rpc_execution hook and has sent nothing.
C16_SuddenDeathSendsNothing ==
    \A i \in 1..Len(executions) :
        executions[i].local = Raise("SuddenDeathException") =>
            /\ executions[i].outcome = Return(None)
            /\ executions[i].state = "done"
            /\ executions[i].sent = <<>>
            /\ ~InList("after_rpc_execution", executions[i].invoked)
            /\ \A k \in 1..Len(pipeline) :
                  pipeline[k].type = "SendResultCommand" =>
                      \E j \in 1..Len(executions) :
                          j # i /\ executions[j].sent = <<pipeline[k]>>

\* one procedure died suddenly while another call's result is on the pipeline
C16_Witness ==
    \E i, j \in 1..Len(executions) :
        /\ executions[i].local = Raise("SuddenDeathException")
        /\ executions[j].state = "sending"
        /\ pipeline # <<>>

\* C17 (SpecExecute): a cancellation raised while the local procedure runs
\* leaves handle_execute_rpc as that cancellation: no ResultMessage is built
\* from it and no SendResultCommand is sent.
C17_CancellationPropagates ==
    \A i \in 1..Len(executions) :
        executions[i].local = Raise("CancelledError") =>
            /\ executions[i].outcome = Raise("CancelledError")
            /\ executions[i].sent = <<>>
            /\ executions[i].state = "done"
            /\ ~InList("after_rpc_execution", executions[i].invoked)

\* a procedure was cancelled after its hook and validation had passed
C17_Witness ==
    \E i \in 1..Len(executions) :
        /\ executions[i].local = Raise("CancelledError")
        /\ executions[i].invoked = <<"validate_incoming", "before_rpc_execution">>
        /\ executions[i].outcome = Raise("CancelledError")

\* the ConsumeRpcsCommands on the pipeline or accepted from it
Enqueued ==
    Cardinality({k \in 1..Len(pipeline) : pipeline[k].type = "ConsumeRpcsCommand"})
        + Cardinality({cmd \in accepted : cmd.type = "ConsumeRpcsCommand"})

\* C18 (SpecConsumeRpcs): consume_rpcs with apis=[] or with apis omitted and an
\* empty API registry raises NoApisToListenOn and enqueues no command;
\* otherwise it enqueues exactly one ConsumeRpcsCommand with the names of the
\* given (or all registered) APIs in order and returns once it is accepted.
C18_ConsumeRpcs ==
    consuming.state # "idle" =>
        LET apis == IF consuming.argument.given THEN consuming.argument.apis
                    ELSE api_registry
        IN IF apis = <<>>
           THEN /\ consuming.outcome = Raise("NoApisToListenOn")
                /\ consuming.state = "done"
                /\ Enqueued = 0
           ELSE /\ consuming.outcome = Return(None)
                /\ Enqueued = 1
                /\ consuming.sent =
                       <<ConsumeRpcsCommand([k \in 1..Len(apis) |->
                                                apis[k].meta.name])>>
                /\ consuming.state = "done" => consuming.sent[1] \in accepted

\* apis omitted: the two registered APIs were sent in registry order, and the
\* call returned
C18_Witness ==
    /\ consuming.state = "done"
    /\ ~consuming.argument.given
    /\ api_registry = <<Api("b"), Api("a")>>
    /\ consuming.sent = <<ConsumeRpcsCommand(<<"b", "a">>)>>
    /\ consuming.outcome = Return(None)

\* C19 (SpecDispatch): a command of a type with no registered handler, given
\* to the event dock or to the RPC/result subclient, fails with the "Did not
\* recognise command" error (a NotImplementedError).  The event dock reads
\* command.__name__, which an instance does not have, so this fails.
C19_UnknownCommandNotRecognised ==
    fallback.dock # None => fallback.result = Raise("NotImplementedError")

\* C20 (SpecDock): while the dock is not closing, every task in listener_tasks
\* is still running, or has failed with its exception put on the error queue
\* (or its done-callback about to put it); a task that ended normally is not
\* in listener_tasks.  Nothing ever leaves listener_tasks, so this fails.
C20_ListenerTasksRunningOrReported ==
    closing.state = "idle" =>
        \A g \in listener_tasks :
            \/ composite[g].state = "pending"
            \/ /\ composite[g].state = "failed"
               /\ \/ composite[g].callback = "scheduled"
                  \/ composite[g].exc \in errors_put

IsRegistered(eps, type_, name) ==
    \E i \in 1..Len(eps) : eps[i].type_ = type_ /\ eps[i].name = name
FamilyInstalled(eps, type_) == \E i \in 1..Len(eps) : eps[i].type_ = type_

\* C21 (SpecTransports): for every name n registered in a family,
\* get_transport_name(get_transport(family, n)) is n, also when a class is
\* registered under several names or in several families.
\* get_transport_name returns the first name it finds for the class, walking
\* rpc, result, event, so this fails for a class with two names.
C21_TransportNameRoundTrips ==
    (/\ transport_lookup.op = "get_transport_name"
     /\ transport_lookup.type_ # None
     /\ IsRegistered(entrypoints, transport_lookup.type_, transport_lookup.name)
     /\ transport_lookup.result.kind = "return"
     /\ transport_lookup.cls = transport_lookup.result.value)
    => transport_lookup.named = Return(transport_lookup.name)

\* C22 (SpecTransports): get_transport(family, name) raises
\* TransportsNotInstalled when the family has no entry point at all, raises
\* TransportNotFound when the family has entry points but none of that name,
\* and returns a class, one registered in the family under the name, only when
\* the name is registered in the family.
C22_GetTransportErrors ==
    transport_lookup.type_ # None =>
        LET t == transport_lookup.type_
            n == transport_lookup.name
            r == transport_lookup.result
        IN /\ ~FamilyInstalled(entrypoints, t) => r = Raise("TransportsNotInstalled")
           /\ (FamilyInstalled(entrypoints, t) /\ ~IsRegistered(entrypoints, t, n))
                  => r = Raise("TransportNotFound")
           /\ IsRegistered(entrypoints, t, n) =>
                  /\ r.kind = "return"
                  /\ \E i \in 1..Len(entrypoints) :
                         entrypoints[i] = EntryPoint(t, n, r.value)
           /\ r.kind = "return" => IsRegistered(entrypoints, t, n)

\* a lookup of a name missing from a family that has another transport, next
\* to a family that has none
C22_Witness ==
    /\ transport_lookup.op = "get_transport"
    /\ transport_lookup.result = Raise("TransportNotFound")
    /\ FamilyInstalled(entrypoints, transport_lookup.type_)
    /\ \E t \in TransportTypes : ~FamilyInstalled(entrypoints, t)

\* C30 (SpecDefaults): get_rpc_transport_pool / get_result_transport_pool /
\* get_event_transport_pool called with an explicit default d never raise: they
\* return the resolved pool (own or "default" entry) when there is one and d
\* when there is none, as get_schema_transport_pool(default=d) returns the
\* schema pool or d.  _get_transport_pool returns api_transport, which is
\* None when nothing resolves, so this fails.
C30_DefaultReturnedWhenNoPool ==
    /\ (lookup.op = "get_pool" /\ lookup.default # empty) =>
           lookup.result =
               Return(IF ResolvedPool(registry, lookup.api_name,
                                      lookup.transport_type) # None
                      THEN ResolvedPool(registry, lookup.api_name,
                                        lookup.transport_type)
                      ELSE lookup.default)
    /\ (lookup.op = "get_schema" /\ lookup.default # empty) =>
           lookup.result =
               Return(IF schema_transport_pool # None THEN schema_transport_pool
                      ELSE lookup.default)

\* C29 (SpecConsume): handling a ConsumeEventsCommand is all-or-nothing.  If
\* any requested API resolves to no event pool (neither its own nor the
\* default entry's), the handler raises TransportNotFound, no listener task
\* exists or holds a pool, and listener_tasks is as it was; otherwise the
\* handler adds exactly one composite task to listener_tasks.
C29_ConsumeEventsAllOrNothing ==
    /\ \A h \in 1..Len(handled) :
          LET events == handled[h].events
          IN IF \E i \in 1..Len(events) :
                    ResolvedPool(registry, events[i][1], "event") = None
             THEN /\ handled[h].result = Raise("TransportNotFound")
                  /\ handled[h].task = 0
             ELSE /\ handled[h].result = Return(None)
                  /\ handled[h].task \in listener_tasks
    /\ Cardinality(listener_tasks) =
           Cardinality({h \in 1..Len(handled) : handled[h].result.kind = "return"})
    /\ \A g \in CommandIds \ listener_tasks : composite[g] = NoComposite
    /\ \A l \in ListenerIds : l[1] \notin listener_tasks => listener[l] = NoListener

\* a request whose first API has a pool and whose second has none
C29_Witness ==
    /\ Len(handled) = 1
    /\ Len(handled[1].events) = 2
    /\ ResolvedPool(registry, handled[1].events[1][1], "event") # None
    /\ ResolvedPool(registry, handled[1].events[2][1], "event") = None
    /\ handled[1].result = Raise("TransportNotFound")

PassedValidation(c) ==
    /\ Len(prepared[c]) = 3
    /\ \A i \in 1..3 : prepared[c][i].result = "ok"

\* C23 (SpecRpc): a call_rpc_remote that passes validation sends exactly one
\* CallRpcCommand and then exactly one ReceiveResultCommand, both with the
\* call's RpcMessage and options, the second with a result queue created for
\* this call alone; the second is sent only once the pipeline accepted the
\* first, and the call waits on the result queue only once both were accepted.
C23_OneCallThenOneReceive ==
    \A c \in Callers :
        /\ Len(sent[c]) <= 2
        /\ PassedValidation(c) => Len(sent[c]) >= 1
        /\ (PassedValidation(c) /\ pc[c] \in {"sent_receive", "waiting", "done"})
               => Len(sent[c]) = 2
        /\ Len(sent[c]) >= 1 =>
               /\ sent[c][1].type = "CallRpcCommand"
               /\ sent[c][1].message = c
               /\ sent[c][1].options = OptionsOf(c)
        /\ Len(sent[c]) = 1 => placed[queue_of[c]] = <<>>
        /\ Len(sent[c]) = 2 =>
               /\ sent[c][2].type = "ReceiveResultCommand"
               /\ sent[c][2].message = sent[c][1].message
               /\ sent[c][2].options = sent[c][1].options
               /\ sent[c][2].destination_queue = queue_of[c]
               /\ \A d \in Callers \ {c} : queue_of[d] # queue_of[c]
               /\ ~InPipeline(sent[c][1])
        /\ fn_task[c].state # "none" =>
               /\ Len(sent[c]) = 2
               /\ ~InPipeline(sent[c][1])
               /\ ~InPipeline(sent[c][2])

\* both callers wait on their own queues, each having sent its two commands
C23_Witness ==
    /\ \A c \in Callers : pc[c] = "waiting" /\ Len(sent[c]) = 2
    /\ sent[1][2].destination_queue # sent[2][2].destination_queue
    /\ sent[1][2].options # sent[2][2].options

\* C24 (SpecRpc): if name validation, outgoing validation or the
\* before_rpc_call hook fails, call_rpc_remote raises that failure and no
\* command of the call reaches the pipeline; a command is sent only after all
\* three succeeded, validate_outgoing having run before before_rpc_call.
C24_NothingSentUnlessPrepared ==
    \A c \in Callers :
        /\ (\E i \in 1..Len(prepared[c]) : prepared[c][i].result # "ok") =>
               /\ pc[c] = "done"
               /\ outcome[c] = Raise(prepared[c][Len(prepared[c])].result)
               /\ sent[c] = <<>>
               /\ \A i \in 1..Len(pipeline) : pipeline[i].message # c
               /\ \A cmd \in accepted : cmd.message # c
               /\ c \notin dispatched
               /\ armed[c].state = "none"
        /\ sent[c] # <<>> => PassedValidation(c)
        /\ \A i, j \in 1..Len(prepared[c]) :
               (/\ prepared[c][i].step = "validate_outgoing"
                /\ prepared[c][j].step = "before_rpc_call") => i < j
        /\ \A i \in 1..Len(prepared[c]) :
               prepared[c][i].step = "before_rpc_call" =>
                   \E j \in 1..(i - 1) :
                       prepared[c][j] = Step("validate_outgoing", "ok")

\* one call stopped by its before_rpc_call hook while the other was sent
C24_Witness ==
    /\ prepared[1] = <<Step("validate_event_or_rpc_name", "ok"),
                       Step("validate_outgoing", "ok"),
                       Step("before_rpc_call", "HookError")>>
    /\ outcome[1] = Raise("HookError")
    /\ sent[1] = <<>>
    /\ Len(sent[2]) = 2

\* C25 (SpecRpc): bail_on_error returns or raises only once the losing side of
\* the race is finished.  A caller that raised an error record has a cancelled
\* wrapped awaitable; a caller that got its item has a monitor that is
\* cancelled or done; no task of a finished bail_on_error is pending.
C25_LoserFinishedBeforeReturn ==
    \A c \in Callers :
        (/\ pc[c] = "done"
         /\ PassedValidation(c)
         /\ outcome[c] # Raise("CancelledError")) =>
            /\ fn_task[c].state \in {"done", "cancelled"}
            /\ monitor_task[c].state \in {"done", "cancelled"}
            /\ fn_task[c].state = "done" \/ monitor_task[c].state = "done"
            /\ fn_task[c].state # "done" =>
                  /\ fn_task[c] = Cancelled
                  /\ outcome[c] = Raise(monitor_task[c].value)
            /\ (fn_task[c].state = "done" /\ monitor_task[c].state # "done") =>
                  monitor_task[c] = Cancelled

\* one caller raised the error record, its awaitable cancelled; the other got
\* its result, its monitor cancelled
C25_Witness ==
    \E c, d \in Callers :
        /\ pc[c] = "done" /\ pc[d] = "done"
        /\ outcome[c] = Raise(ErrorRecord(1))
        /\ fn_task[c] = Cancelled
        /\ outcome[d].kind = "return"
        /\ monitor_task[d] = Cancelled

\* C26 (SpecRpc): no error record is lost by bail_on_error.  Every record ever
\* put is on the error queue, or in the monitor of a caller whose bail_on_error
\* has yet to resume, or was raised to a caller.  When the item and the record
\* are both there as bail_on_error resumes, the item is returned and the
\* record is dropped, so this fails.
C26_NoErrorRecordLost ==
    \A rec \in errors_put :
        \/ InList(rec, error_queue)
        \/ \E c \in Callers : /\ pc[c] = "waiting"
                              /\ monitor_task[c] = Done(rec)
        \/ \E c \in Callers : /\ pc[c] = "done"
                              /\ outcome[c] = Raise(rec)

\* C27 (SpecCancel): once a caller blocked in bail_on_error has been cancelled,
\* neither the wrapped awaitable's task nor the monitor task is pending, and
\* no monitor of the cancelled call holds an error record.  Both tasks are left
\* pending, so this fails.
C27_NoOrphanTasksAfterCancel ==
    \A c \in Callers :
        outcome[c] = Raise("CancelledError") =>
            /\ fn_task[c].state # "pending"
            /\ monitor_task[c].state # "pending"

\* C28 (SpecSilent): when every caller is blocked in call_rpc_remote on the one
\* error queue and a single error record is put, every caller eventually
\* raises.  One monitor takes the record; the other caller waits for ever.
BothBlockedAtError ==
    \A c \in Callers : Blocked(c) /\ put_while_blocked[c] # {}
AllRaised == \A c \in Callers : pc[c] = "done" /\ outcome[c].kind = "raise"
====
